---- MODULE Spec2Model ----
(***************************************************************************)
(* A model of the HDF-Viewer backend: the TTL + LRU cache                  *)
(* (backend/src/utils/cache.py) and the HDF5 routes that use it            *)
(* (backend/src/routes/hdf5.py).                                           *)
(*                                                                         *)
(* Python values are modelled as follows.  None is the string "None".      *)
(* An optional integer is a sequence of length 0 (None) or 1.  An          *)
(* OrderedDict is a sequence of entries in dictionary order (oldest        *)
(* first).  A cache key is a sequence of characters, so that the           *)
(* substring test of clear_pattern is a real substring test; the keys that *)
(* the routes build are sequences of the parts given to make_cache_key.    *)
(* time.time() is the integer variable now.                                *)
(***************************************************************************)
EXTENDS Integers, Sequences, FiniteSets, TLC

VARIABLES
    cache,      \* the SimpleCache under test: default_ttl, max_entries, _cache
    cacheName,  \* which of the module's global caches it was built as
    now,        \* time.time()
    ticks,      \* how many times the clock has advanced
    last,       \* history: the last operation, its arguments and its result
    recency,    \* history: stored keys, oldest successful get/set first
    setOrder,   \* history: stored keys, oldest set first
    deadline,   \* history: per stored key, <<t + ttl, value>> of its last set
    lock,       \* SimpleCache._lock: the thread holding it, or None
    pc,         \* per thread: the statement of the cache method it is at
    frame,      \* per thread: the arguments and locals of its cache call
    readerKind, \* what get_hdf5_reader() returns: HDF5Reader or the tests' Mock
    fileShape,  \* the shape of the dataset "/d" of the stored file
    version,    \* the uploads of the stored object so far (0: no object)
    pool,       \* the name of the set of requests that the clients may send
    active,     \* the clients that may send a request
    caches,     \* the global caches of the routes: hdf5, dataset, data
    clients,    \* per client: the frame of the handler serving its request
    served,     \* history: the exchanges answered, in the order of the answers
    writes,     \* history: how many times a handler has stored a response
    sel,        \* a selection: the arguments of _normalize_selection, its result
    bucket,     \* the keys of the objects that the bucket holds
    globals,    \* the module globals _minio_client and _hdf5_reader
    built,      \* history: per getter, how many times the constructor has run
    handed,     \* history: the instances returned by the getters, in order
    reads       \* history: the calls made outside a route (get_object_range,
                \* get_matrix, get_heatmap, the heatmap size, the cache keys),
                \* their arguments and their outcomes

cacheVars == <<cache, cacheName, now, ticks, last, recency, setOrder, deadline>>

\* the module globals of the two singletons, and the history of the calls of
\* the storage layer
singletonVars == <<globals, built, handed, reads>>

threadVars == <<lock, pc, frame, singletonVars>>

routeVars ==
    <<readerKind, fileShape, version, pool, active, caches, clients, served,
      writes, sel, bucket>>

vars == <<cacheVars, threadVars, routeVars>>

\* what a single-threaded cache call leaves alone
notCacheVars == <<threadVars, routeVars>>

None == "None"

Max(a, b) == IF a >= b THEN a ELSE b

Min(a, b) == IF a <= b THEN a ELSE b

(***************************************************************************)
(* Bounds of the model.                                                    *)
(***************************************************************************)
\* time.time() advances at most MaxTicks times between calls, each time by the
\* default TTL of the cache under test (an entry stored with it is then exactly
\* at its expiry time) or by one second more (it is then past it).
MaxTicks == 1

\* Cache keys, values and substring patterns used by the cache operations.
Keys == {<<"a">>, <<"a", "b">>, <<"b">>}

Values == {"v1", "v2"}

Patterns == {<<>>, <<"a">>, <<"b">>, <<"b", "a">>}

\* The threads calling one cache concurrently, and the keys they use.
Threads == {"t1", "t2"}

ThreadKeys == {<<"a">>, <<"a", "b">>}

ThreadPatterns == {<<"b">>}

\* The ttl argument of set: None, or a number of seconds.
TTLArgs == {<<>>, <<0>>}

\* The max_entries arguments the caches are constructed with in the model
\* (the globals use 200, 3000, 3000 and 1200).
MaxEntriesArgs == {0, 1, 2}

(***************************************************************************)
(* cache.py: the global cache instances.                                   *)
(***************************************************************************)
FILES_TTL == 30

HDF5_TTL == 300

DATASET_TTL == 300

DATA_TTL == 120

CacheNames == {"files", "hdf5", "dataset", "data"}

DefaultTTLOf(name) ==
    CASE name = "files" -> FILES_TTL
      [] name = "hdf5" -> HDF5_TTL
      [] name = "dataset" -> DATASET_TTL
      [] name = "data" -> DATA_TTL

(***************************************************************************)
(* OrderedDict                                                             *)
(***************************************************************************)
KeysOf(entries) == {entries[i].key : i \in 1..Len(entries)}

KeySeq(entries) == [i \in 1..Len(entries) |-> entries[i].key]

Has(entries, key) == key \in KeysOf(entries)

IndexOf(entries, key) == CHOOSE i \in 1..Len(entries) : entries[i].key = key

EntryOf(entries, key) == entries[IndexOf(entries, key)]

\* del d[key]
DelItem(entries, key) == SelectSeq(entries, LAMBDA e : e.key # key)

\* d.move_to_end(key)
MoveToEnd(entries, key) ==
    Append(DelItem(entries, key), EntryOf(entries, key))

\* d[key] = entry: in place when the key is present, appended otherwise
SetItem(entries, key, entry) ==
    IF Has(entries, key)
    THEN [entries EXCEPT ![IndexOf(entries, key)] = entry]
    ELSE Append(entries, entry)

\* substring test: pattern in key
IsSubstring(pattern, key) ==
    \E i \in 0..(Len(key) - Len(pattern)) :
        SubSeq(key, i + 1, i + Len(pattern)) = pattern

(***************************************************************************)
(* SimpleCache                                                             *)
(***************************************************************************)
\* SimpleCache.__init__
NewCache(default_ttl, max_entries) ==
    [default_ttl |-> default_ttl,
     max_entries |-> Max(1, max_entries),
     entries |-> <<>>]

\* the expiry test of get and stats
Expired(entry, t) == t > entry.expires_at

\* get as it would be without move_to_end on a hit
CacheGetNoPromote(c, key, t) ==
    IF ~Has(c.entries, key)
    THEN [cache |-> c, ret |-> None]
    ELSE LET entry == EntryOf(c.entries, key) IN
         IF Expired(entry, t)
         THEN [cache |-> [c EXCEPT !.entries = DelItem(c.entries, key)],
               ret |-> None]
         ELSE [cache |-> c, ret |-> entry.value]

\* SimpleCache.get at time t: the cache afterwards and the value returned
CacheGet(c, key, t) ==
    IF ~Has(c.entries, key)
    THEN [cache |-> c, ret |-> None]
    ELSE LET entry == EntryOf(c.entries, key) IN
         IF Expired(entry, t)
         THEN [cache |-> [c EXCEPT !.entries = DelItem(c.entries, key)],
               ret |-> None]
         ELSE [cache |-> [c EXCEPT !.entries = MoveToEnd(c.entries, key)],
               ret |-> entry.value]

\* the ttl as "ttl or self.default_ttl" would choose it: 0 counts as not given
EffectiveTTLTruthy(c, ttl) ==
    IF ttl # <<>> /\ ttl[1] # 0 THEN ttl[1] ELSE c.default_ttl

\* the ttl set uses, and the expiry time it computes at time t
EffectiveTTL(c, ttl) == IF ttl # <<>> THEN ttl[1] ELSE c.default_ttl

ExpiresAt(c, ttl, t) == t + EffectiveTTL(c, ttl)

\* the eviction loop with its bound off by one
RECURSIVE EvictLoopOffByOne(_, _, _)
EvictLoopOffByOne(entries, max_entries, evicted) ==
    IF Len(entries) > max_entries + 1
    THEN EvictLoopOffByOne(Tail(entries), max_entries,
                           Append(evicted, Head(entries).key))
    ELSE [entries |-> entries, evicted |-> evicted]

\* the eviction loop of set: the entries kept and the keys evicted, in order
RECURSIVE EvictLoop(_, _, _)
EvictLoop(entries, max_entries, evicted) ==
    IF Len(entries) > max_entries
    THEN EvictLoop(Tail(entries), max_entries, Append(evicted, Head(entries).key))
    ELSE [entries |-> entries, evicted |-> evicted]

\* the insertion of set: move_to_end of a present key, then the assignment
StoreEntry(entries, key, entry) ==
    SetItem(IF Has(entries, key) THEN MoveToEnd(entries, key) ELSE entries,
            key, entry)

\* SimpleCache.set: expires_at is computed at time t, created_at at time t2
CacheSet(c, key, value, ttl, t, t2) ==
    LET entry == [key |-> key, value |-> value,
                  expires_at |-> ExpiresAt(c, ttl, t), created_at |-> t2]
        r == EvictLoop(StoreEntry(c.entries, key, entry), c.max_entries, <<>>)
    IN  [cache |-> [c EXCEPT !.entries = r.entries], evicted |-> r.evicted]

\* SimpleCache.delete
CacheDelete(c, key) ==
    IF Has(c.entries, key)
    THEN [c EXCEPT !.entries = DelItem(c.entries, key)]
    ELSE c

\* SimpleCache.clear
CacheClear(c) == [c EXCEPT !.entries = <<>>]

\* SimpleCache.clear_pattern
CacheClearPattern(c, pattern) ==
    [c EXCEPT !.entries = SelectSeq(c.entries, LAMBDA e : ~IsSubstring(pattern, e.key))]

\* SimpleCache.stats at time t
CacheStats(c, t) ==
    LET total == Len(c.entries)
        expired == Cardinality({i \in 1..total : Expired(c.entries[i], t)})
    IN  [total_entries |-> total,
         active_entries |-> total - expired,
         expired_entries |-> expired]

(***************************************************************************)
(* History of the cache under test.  The history variables are computed    *)
(* from the arguments and the results of the calls, never from the order   *)
(* of the dictionary they are compared with.                               *)
(***************************************************************************)
NoOp ==
    [op |-> "init", key |-> <<>>, value |-> None, ttl |-> <<>>, t |-> 0,
     ret |-> None, had |-> FALSE, evicted |-> <<>>, oldest |-> <<>>,
     fifo |-> <<>>, due |-> <<>>]

\* a successful get or set makes key the most recently used one
Touch(r, key) == Append(SelectSeq(r, LAMBDA k : k # key), key)

\* keys that left the cache leave the history too
Forget(r, stored) == SelectSeq(r, LAMBDA k : k \in stored)

ForgetDue(d, stored) == [k \in Keys |-> IF k \in stored THEN d[k] ELSE <<>>]

\* a thread that is in no cache call
IdleFrame ==
    [op |-> "none", key |-> <<>>, value |-> None, ttl |-> <<>>,
     expires_at |-> 0, t |-> 0, t2 |-> 0, entry |-> None, ret |-> None,
     todo |-> <<>>, total |-> 0, snap |-> None, cands |-> {}, raced |-> FALSE,
     exc |-> None]

\* no getter has been called: the module globals are as the modules set them
NoSingletons ==
    /\ globals = [minio |-> None, reader |-> None]
    /\ built = [minio |-> 0, reader |-> 0]
    /\ handed = <<>>
    /\ reads = <<>>

ThreadsIdle ==
    /\ lock = None
    /\ pc = [t \in Threads |-> "idle"]
    /\ frame = [t \in Threads |-> IdleFrame]
    /\ NoSingletons

\* no route is served: the state of the routes is left empty
RoutesIdle ==
    /\ readerKind = ""
    /\ fileShape = <<>>
    /\ version = 0
    /\ pool = ""
    /\ active = {}
    /\ caches = <<>>
    /\ clients = <<>>
    /\ served = <<>>
    /\ writes = 0
    /\ sel = <<>>
    /\ bucket = {}

(***************************************************************************)
(* One cache, called from one thread: each call is one step.               *)
(***************************************************************************)
InitCache ==
    /\ cacheName \in CacheNames
    /\ \E m \in MaxEntriesArgs :
           cache = NewCache(DefaultTTLOf(cacheName), m)
    /\ now = 0
    /\ ticks = 0
    /\ last = NoOp
    /\ recency = <<>>
    /\ setOrder = <<>>
    /\ deadline = [k \in Keys |-> <<>>]
    /\ ThreadsIdle
    /\ RoutesIdle

\* time passes between two calls
Tick ==
    \E d \in {cache.default_ttl, cache.default_ttl + 1} :
        /\ ticks < MaxTicks
        /\ ticks' = ticks + 1
        /\ now' = now + d
        /\ last' = NoOp
        /\ UNCHANGED <<cache, cacheName, recency, setOrder, deadline>>

\* cache.get(key)
DoGet ==
    \E key \in Keys :
        LET r == CacheGet(cache, key, now)
            stored == KeysOf(r.cache.entries)
        IN  /\ cache' = r.cache
            /\ last' = [NoOp EXCEPT !.op = "get", !.key = key, !.t = now,
                                    !.ret = r.ret,
                                    !.had = Has(cache.entries, key),
                                    !.due = deadline[key]]
            /\ recency' = Forget(IF r.ret # None THEN Touch(recency, key)
                                 ELSE recency, stored)
            /\ setOrder' = Forget(setOrder, stored)
            /\ deadline' = ForgetDue(deadline, stored)
            /\ UNCHANGED <<cacheName, now, ticks>>

\* cache.set(key, value, ttl)
DoSet ==
    \E key \in Keys, value \in Values, ttl \in TTLArgs :
        LET r == CacheSet(cache, key, value, ttl, now, now)
            stored == KeysOf(r.cache.entries)
            touched == Touch(recency, key)
            due == IF ttl = <<>> THEN now + DefaultTTLOf(cacheName)
                   ELSE now + ttl[1]
            ordered == Touch(setOrder, key)
        IN  /\ cache' = r.cache
            /\ last' = [NoOp EXCEPT !.op = "set", !.key = key, !.value = value,
                                    !.ttl = ttl, !.t = now,
                                    !.had = Has(cache.entries, key),
                                    !.evicted = r.evicted,
                                    !.oldest = Head(touched),
                                    !.fifo = Head(ordered),
                                    !.due = <<due, value>>]
            /\ recency' = Forget(touched, stored)
            /\ setOrder' = Forget(ordered, stored)
            /\ deadline' = ForgetDue([deadline EXCEPT ![key] = <<due, value>>],
                                     stored)
            /\ UNCHANGED <<cacheName, now, ticks>>

\* cache.delete(key)
DoDelete ==
    \E key \in Keys :
        LET c == CacheDelete(cache, key)
            stored == KeysOf(c.entries)
        IN  /\ cache' = c
            /\ last' = [NoOp EXCEPT !.op = "delete", !.key = key, !.t = now,
                                    !.had = Has(cache.entries, key)]
            /\ recency' = Forget(recency, stored)
            /\ setOrder' = Forget(setOrder, stored)
            /\ deadline' = ForgetDue(deadline, stored)
            /\ UNCHANGED <<cacheName, now, ticks>>

\* cache.clear()
DoClear ==
    /\ cache' = CacheClear(cache)
    /\ last' = [NoOp EXCEPT !.op = "clear", !.t = now]
    /\ recency' = Forget(recency, KeysOf(cache'.entries))
    /\ setOrder' = Forget(setOrder, KeysOf(cache'.entries))
    /\ deadline' = ForgetDue(deadline, KeysOf(cache'.entries))
    /\ UNCHANGED <<cacheName, now, ticks>>

\* cache.clear_pattern(pattern)
DoClearPattern ==
    \E pattern \in Patterns :
        LET c == CacheClearPattern(cache, pattern)
            stored == KeysOf(c.entries)
        IN  /\ cache' = c
            /\ last' = [NoOp EXCEPT !.op = "clear_pattern", !.key = pattern,
                                    !.t = now]
            /\ recency' = Forget(recency, stored)
            /\ setOrder' = Forget(setOrder, stored)
            /\ deadline' = ForgetDue(deadline, stored)
            /\ UNCHANGED <<cacheName, now, ticks>>

\* cache.stats()
DoStats ==
    /\ last' = [NoOp EXCEPT !.op = "stats", !.t = now,
                            !.ret = CacheStats(cache, now)]
    /\ UNCHANGED <<cache, cacheName, now, ticks, recency, setOrder, deadline>>

NextCache ==
    \/ Tick /\ UNCHANGED notCacheVars
    \/ DoGet /\ UNCHANGED notCacheVars
    \/ DoSet /\ UNCHANGED notCacheVars
    \/ DoDelete /\ UNCHANGED notCacheVars
    \/ DoClear /\ UNCHANGED notCacheVars
    \/ DoClearPattern /\ UNCHANGED notCacheVars
    \/ DoStats /\ UNCHANGED notCacheVars

SpecCache == InitCache /\ [][NextCache]_vars

\* the cache is always one the program can be in
TypeOKCache ==
    /\ cache.max_entries >= 1
    /\ \A i \in 1..Len(cache.entries) : cache.entries[i].key \in Keys
    /\ Cardinality(KeysOf(cache.entries)) = Len(cache.entries)

(***************************************************************************)
(* The cache contract, checked under SpecCache.                            *)
(***************************************************************************)
SeqRange(q) == {q[i] : i \in 1..Len(q)}

\* C1: after any sequence of get/set/delete/clear/clear_pattern calls the
\* cache holds at most max_entries entries; a set that overflows the cache
\* evicts until the size is exactly max_entries, and the key just set is
\* stored and is never among the evicted ones.
C1_SizeBound ==
    /\ Len(cache.entries) <= cache.max_entries
    /\ last.op = "set" =>
        /\ Has(cache.entries, last.key)
        /\ last.key \notin SeqRange(last.evicted)
        /\ last.evicted # <<>> => Len(cache.entries) = cache.max_entries
        /\ SeqRange(last.evicted) \cap KeysOf(cache.entries) = {}

\* a set has just overflowed a cache and evicted an entry
C1_Witness ==
    /\ last.op = "set"
    /\ last.evicted # <<>>
    /\ ~last.had
    /\ Len(cache.entries) = cache.max_entries

\* C2: the dictionary order is the order of the last successful get or set
\* of each stored key (a hit moves the key to the most recent end), and a set
\* that evicts removes exactly the stored key whose last successful get or
\* set is the oldest.
C2_TrueLRU ==
    /\ KeySeq(cache.entries) = recency
    /\ (last.op = "get" /\ last.ret # None) =>
           cache.entries[Len(cache.entries)].key = last.key
    /\ (last.op = "set" /\ last.evicted # <<>>) =>
           last.evicted = <<last.oldest>>

\* a set has evicted a key that is not the one set longest ago: a get had
\* promoted the older entry
C2_Witness ==
    /\ last.op = "set"
    /\ last.evicted # <<>>
    /\ last.evicted[1] # last.fifo
    /\ last.fifo \in KeysOf(cache.entries)

\* C3: every cache has its documented default TTL; set(key, value, ttl) at
\* time t stores expires_at = t + ttl (the default when ttl is None); a get
\* that returns a value returns the one last set for the key, at a time not
\* later than its expires_at; a get that finds the entry expired reports a
\* miss and removes it.
C3_TTL ==
    /\ cache.default_ttl = (CASE cacheName = "files" -> 30
                              [] cacheName = "hdf5" -> 300
                              [] cacheName = "dataset" -> 300
                              [] cacheName = "data" -> 120)
    /\ last.op = "set" =>
        /\ EntryOf(cache.entries, last.key).value = last.value
        /\ EntryOf(cache.entries, last.key).expires_at =
               last.t + (IF last.ttl = <<>> THEN cache.default_ttl
                         ELSE last.ttl[1])
        /\ EntryOf(cache.entries, last.key).expires_at = last.due[1]
    /\ (last.op = "get" /\ last.ret # None) =>
        /\ last.had
        /\ last.due # <<>>
        /\ last.ret = last.due[2]
        /\ last.t <= last.due[1]
    /\ (last.op = "get" /\ last.had /\ last.t > last.due[1]) =>
        /\ last.ret = None
        /\ ~Has(cache.entries, last.key)

\* a get has found an expired entry, removed it and reported a miss
C3_Witness ==
    /\ last.op = "get"
    /\ last.had
    /\ last.t > last.due[1]
    /\ last.ret = None
    /\ ~Has(cache.entries, last.key)

(***************************************************************************)
(* One cache, called from several threads.  Each method is a sequence of   *)
(* statements; the statements inside "with self._lock" run while the       *)
(* thread holds the lock.  A dictionary access that would raise KeyError   *)
(* leaves the with block with the exception recorded in frame.exc.         *)
(* frame.snap (the cache when the lock was taken) and frame.cands (the     *)
(* values a get may legitimately return) are history.                      *)
(***************************************************************************)
\* Lock.acquire: the lock can be taken when nobody holds it
CanAcquireAlways(holder) == TRUE

CanAcquire(holder) == holder = None

InCriticalSection(p) ==
    p \in {"g_check", "g_read", "g_expiry", "g_del", "g_move", "s_move",
           "s_assign", "s_evict", "d_del", "c_clear", "p_list", "p_del",
           "st_total", "st_count", "unlock"}

FirstStatement(op) ==
    CASE op = "get" -> "g_check"
      [] op = "set" -> "s_move"
      [] op = "delete" -> "d_del"
      [] op = "clear" -> "c_clear"
      [] op = "clear_pattern" -> "p_list"
      [] op = "stats" -> "st_total"

InitThreads ==
    /\ cacheName = "data"
    /\ \E m \in MaxEntriesArgs :
           cache = NewCache(DefaultTTLOf(cacheName), m)
    /\ now = 0
    /\ ticks = 0
    /\ last = NoOp
    /\ recency = <<>>
    /\ setOrder = <<>>
    /\ deadline = [k \in Keys |-> <<>>]
    /\ ThreadsIdle
    /\ RoutesIdle

\* the value a get that starts now would return if it ran alone
CurrentValues(key) ==
    IF Has(cache.entries, key) THEN {EntryOf(cache.entries, key).value} ELSE {}

\* the value a thread stores: each thread writes its own
ValueOf(t) == IF t = "t1" THEN "v1" ELSE "v2"

\* a thread calls a method of the cache
Call(t) ==
    /\ pc[t] = "idle"
    /\ \E op \in {"get", "set", "delete", "clear", "clear_pattern", "stats"},
          key \in ThreadKeys, value \in Values, ttl \in TTLArgs,
          pattern \in ThreadPatterns :
        /\ value = ValueOf(t)
        /\ op # "set" => ttl = <<>>
        /\ op \in {"clear", "stats"} => key = <<"a">>
        /\ frame' = [frame EXCEPT ![t] =
               [IdleFrame EXCEPT
                    !.op = op,
                    !.key = CASE op \in {"get", "set", "delete"} -> key
                              [] op = "clear_pattern" -> pattern
                              [] OTHER -> <<>>,
                    !.value = IF op = "set" THEN value ELSE None,
                    !.ttl = IF op = "set" THEN ttl ELSE <<>>,
                    !.cands = IF op = "get" THEN CurrentValues(key) ELSE {}]]
        /\ pc' = [pc EXCEPT ![t] = IF op = "set" THEN "s_time" ELSE "lock"]
    /\ UNCHANGED <<cacheVars, lock, routeVars, singletonVars>>

\* set: ttl and expires_at are computed before the lock is taken
SetTime(t) ==
    /\ pc[t] = "s_time"
    /\ frame' = [frame EXCEPT ![t].t = now,
                              ![t].expires_at = ExpiresAt(cache, frame[t].ttl, now)]
    /\ pc' = [pc EXCEPT ![t] = "lock"]
    /\ UNCHANGED <<cacheVars, lock, routeVars, singletonVars>>

\* with self._lock: enter
Acquire(t) ==
    /\ pc[t] = "lock"
    /\ CanAcquire(lock)
    /\ lock' = t
    /\ frame' = [frame EXCEPT ![t].snap = cache]
    /\ pc' = [pc EXCEPT ![t] = FirstStatement(frame[t].op)]
    /\ UNCHANGED <<cacheVars, routeVars, singletonVars>>

\* get: if key not in self._cache: return None
GetCheck(t) ==
    /\ pc[t] = "g_check"
    /\ pc' = [pc EXCEPT ![t] = IF Has(cache.entries, frame[t].key)
                               THEN "g_read" ELSE "unlock"]
    /\ UNCHANGED <<cacheVars, lock, frame, routeVars, singletonVars>>

\* get: entry = self._cache[key]
GetRead(t) ==
    /\ pc[t] = "g_read"
    /\ IF Has(cache.entries, frame[t].key)
       THEN /\ frame' = [frame EXCEPT ![t].entry = EntryOf(cache.entries, frame[t].key)]
            /\ pc' = [pc EXCEPT ![t] = "g_expiry"]
       ELSE /\ frame' = [frame EXCEPT ![t].exc = "KeyError"]
            /\ pc' = [pc EXCEPT ![t] = "unlock"]
    /\ UNCHANGED <<cacheVars, lock, routeVars, singletonVars>>

\* get: if time.time() > entry['expires_at']
GetExpiry(t) ==
    /\ pc[t] = "g_expiry"
    /\ frame' = [frame EXCEPT ![t].t = now]
    /\ pc' = [pc EXCEPT ![t] = IF Expired(frame[t].entry, now)
                               THEN "g_del" ELSE "g_move"]
    /\ UNCHANGED <<cacheVars, lock, routeVars, singletonVars>>

\* get: del self._cache[key]; return None
GetDel(t) ==
    /\ pc[t] = "g_del"
    /\ IF Has(cache.entries, frame[t].key)
       THEN /\ cache' = [cache EXCEPT !.entries = DelItem(cache.entries, frame[t].key)]
            /\ frame' = frame
       ELSE /\ cache' = cache
            /\ frame' = [frame EXCEPT ![t].exc = "KeyError"]
    /\ pc' = [pc EXCEPT ![t] = "unlock"]
    /\ UNCHANGED <<cacheName, now, ticks, last, recency, setOrder, deadline, lock, routeVars, singletonVars>>

\* get: self._cache.move_to_end(key); return entry['value']
GetMove(t) ==
    /\ pc[t] = "g_move"
    /\ IF Has(cache.entries, frame[t].key)
       THEN /\ cache' = [cache EXCEPT !.entries = MoveToEnd(cache.entries, frame[t].key)]
            /\ frame' = [frame EXCEPT ![t].ret = frame[t].entry.value]
       ELSE /\ cache' = cache
            /\ frame' = [frame EXCEPT ![t].exc = "KeyError"]
    /\ pc' = [pc EXCEPT ![t] = "unlock"]
    /\ UNCHANGED <<cacheName, now, ticks, last, recency, setOrder, deadline, lock, routeVars, singletonVars>>

\* set: if key in self._cache: self._cache.move_to_end(key)
SetMove(t) ==
    /\ pc[t] = "s_move"
    /\ cache' = [cache EXCEPT !.entries =
           IF Has(cache.entries, frame[t].key)
           THEN MoveToEnd(cache.entries, frame[t].key) ELSE cache.entries]
    /\ pc' = [pc EXCEPT ![t] = "s_assign"]
    /\ UNCHANGED <<cacheName, now, ticks, last, recency, setOrder, deadline, lock, frame, routeVars, singletonVars>>

\* set: self._cache[key] = {value, expires_at, created_at}
SetAssign(t) ==
    /\ pc[t] = "s_assign"
    /\ cache' = [cache EXCEPT !.entries =
           SetItem(cache.entries, frame[t].key,
                   [key |-> frame[t].key, value |-> frame[t].value,
                    expires_at |-> frame[t].expires_at, created_at |-> now])]
    /\ frame' = [u \in Threads |->
           IF u = t THEN [frame[u] EXCEPT !.t2 = now]
           ELSE IF frame[u].op = "get" /\ frame[u].key = frame[t].key
                THEN [frame[u] EXCEPT !.cands = @ \cup {frame[t].value},
                                      !.raced = TRUE]
                ELSE frame[u]]
    /\ pc' = [pc EXCEPT ![t] = "s_evict"]
    /\ UNCHANGED <<cacheName, now, ticks, last, recency, setOrder, deadline, lock, routeVars, singletonVars>>

\* set: while len(self._cache) > self.max_entries: self._cache.popitem(last=False)
SetEvict(t) ==
    /\ pc[t] = "s_evict"
    /\ IF Len(cache.entries) > cache.max_entries
       THEN /\ cache' = [cache EXCEPT !.entries = Tail(cache.entries)]
            /\ pc' = pc
       ELSE /\ cache' = cache
            /\ pc' = [pc EXCEPT ![t] = "unlock"]
    /\ UNCHANGED <<cacheName, now, ticks, last, recency, setOrder, deadline, lock, frame, routeVars, singletonVars>>

\* delete: if key in self._cache: del self._cache[key]
DeleteStep(t) ==
    /\ pc[t] = "d_del"
    /\ cache' = [cache EXCEPT !.entries = DelItem(cache.entries, frame[t].key)]
    /\ pc' = [pc EXCEPT ![t] = "unlock"]
    /\ UNCHANGED <<cacheName, now, ticks, last, recency, setOrder, deadline, lock, frame, routeVars, singletonVars>>

\* clear: count = len(self._cache); self._cache.clear()
ClearStep(t) ==
    /\ pc[t] = "c_clear"
    /\ cache' = [cache EXCEPT !.entries = <<>>]
    /\ frame' = [frame EXCEPT ![t].total = Len(cache.entries)]
    /\ pc' = [pc EXCEPT ![t] = "unlock"]
    /\ UNCHANGED <<cacheName, now, ticks, last, recency, setOrder, deadline, lock, routeVars, singletonVars>>

\* clear_pattern: keys_to_delete = [k for k in self._cache.keys() if pattern in k]
PatternList(t) ==
    /\ pc[t] = "p_list"
    /\ frame' = [frame EXCEPT ![t].todo =
           SelectSeq(KeySeq(cache.entries), LAMBDA k : IsSubstring(frame[t].key, k))]
    /\ pc' = [pc EXCEPT ![t] = "p_del"]
    /\ UNCHANGED <<cacheVars, lock, routeVars, singletonVars>>

\* clear_pattern: for key in keys_to_delete: del self._cache[key]
PatternDelete(t) ==
    /\ pc[t] = "p_del"
    /\ IF frame[t].todo = <<>>
       THEN /\ cache' = cache
            /\ frame' = frame
            /\ pc' = [pc EXCEPT ![t] = "unlock"]
       ELSE IF Has(cache.entries, Head(frame[t].todo))
       THEN /\ cache' = [cache EXCEPT !.entries = DelItem(cache.entries, Head(frame[t].todo))]
            /\ frame' = [frame EXCEPT ![t].todo = Tail(@)]
            /\ pc' = pc
       ELSE /\ cache' = cache
            /\ frame' = [frame EXCEPT ![t].exc = "KeyError"]
            /\ pc' = [pc EXCEPT ![t] = "unlock"]
    /\ UNCHANGED <<cacheName, now, ticks, last, recency, setOrder, deadline, lock, routeVars, singletonVars>>

\* stats: total = len(self._cache)
StatsTotal(t) ==
    /\ pc[t] = "st_total"
    /\ frame' = [frame EXCEPT ![t].total = Len(cache.entries)]
    /\ pc' = [pc EXCEPT ![t] = "st_count"]
    /\ UNCHANGED <<cacheVars, lock, routeVars, singletonVars>>

\* stats: expired = sum(...); the clock is read once for all entries
StatsCount(t) ==
    /\ pc[t] = "st_count"
    /\ LET expired == Cardinality({i \in 1..Len(cache.entries) :
                                       Expired(cache.entries[i], now)})
       IN  frame' = [frame EXCEPT ![t].t = now,
                                  ![t].ret = [total_entries |-> frame[t].total,
                                              active_entries |-> frame[t].total - expired,
                                              expired_entries |-> expired]]
    /\ pc' = [pc EXCEPT ![t] = "unlock"]
    /\ UNCHANGED <<cacheVars, lock, routeVars, singletonVars>>

\* with self._lock: leave (also when the block raised), and return
Release(t) ==
    /\ pc[t] = "unlock"
    /\ lock' = None
    /\ pc' = [pc EXCEPT ![t] = "idle"]
    /\ frame' = [frame EXCEPT ![t] = IdleFrame]
    /\ UNCHANGED <<cacheVars, routeVars, singletonVars>>

\* time passes while the threads run
TickThreads ==
    \E d \in {cache.default_ttl + 1} :
        /\ ticks < MaxTicks
        /\ ticks' = ticks + 1
        /\ now' = now + d
        /\ UNCHANGED <<cache, cacheName, last, recency, setOrder, deadline, threadVars, routeVars>>

NextThreads ==
    \/ TickThreads
    \/ \E t \in Threads :
        \/ Call(t)
        \/ SetTime(t)
        \/ Acquire(t)
        \/ GetCheck(t)
        \/ GetRead(t)
        \/ GetExpiry(t)
        \/ GetDel(t)
        \/ GetMove(t)
        \/ SetMove(t)
        \/ SetAssign(t)
        \/ SetEvict(t)
        \/ DeleteStep(t)
        \/ ClearStep(t)
        \/ PatternList(t)
        \/ PatternDelete(t)
        \/ StatsTotal(t)
        \/ StatsCount(t)
        \/ Release(t)

SpecThreads == InitThreads /\ [][NextThreads]_vars

(***************************************************************************)
(* The cache under concurrent calls, checked under SpecThreads.            *)
(***************************************************************************)
\* what the method a thread is in does when it runs alone on frame.snap
AtomicEffect(f) ==
    CASE f.op = "get" -> CacheGet(f.snap, f.key, f.t)
      [] f.op = "set" ->
            [cache |-> CacheSet(f.snap, f.key, f.value, f.ttl, f.t, f.t2).cache,
             ret |-> None]
      [] f.op = "delete" -> [cache |-> CacheDelete(f.snap, f.key), ret |-> None]
      [] f.op = "clear" -> [cache |-> CacheClear(f.snap), ret |-> None]
      [] f.op = "clear_pattern" ->
            [cache |-> CacheClearPattern(f.snap, f.key), ret |-> None]
      [] f.op = "stats" -> [cache |-> f.snap, ret |-> CacheStats(f.snap, f.t)]

\* C4: the calls on one cache are serialized by its lock.  At most one
\* thread is inside a critical section and it holds the lock; no call
\* raises; when a call leaves its critical section the cache and the
\* returned value are those of the whole method applied, alone, to the cache
\* as it was when the lock was taken; whenever no thread is inside a
\* critical section the cache holds at most max_entries entries; and a get
\* returns a miss, the value stored when it was called or a value set
\* for the same key while it ran.
C4_Serialized ==
    /\ \A t, u \in Threads :
           (InCriticalSection(pc[t]) /\ InCriticalSection(pc[u])) => t = u
    /\ \A t \in Threads : InCriticalSection(pc[t]) <=> lock = t
    /\ \A t \in Threads : frame[t].exc = None
    /\ lock = None => Len(cache.entries) <= cache.max_entries
    /\ \A t \in Threads : pc[t] = "unlock" =>
           /\ cache = AtomicEffect(frame[t]).cache
           /\ frame[t].ret = AtomicEffect(frame[t]).ret
           /\ frame[t].op = "get" => frame[t].ret \in {None} \cup frame[t].cands

\* a get returns the value that another thread set for its key after the get
\* was called
C4_Witness ==
    \E t \in Threads :
        /\ pc[t] = "unlock"
        /\ frame[t].op = "get"
        /\ frame[t].raced
        /\ frame[t].ret # None
        /\ frame[t].ret # ValueOf(t)

(***************************************************************************)
(* routes/hdf5.py: query parameters.                                       *)
(*                                                                         *)
(* A raw integer parameter is [kind, val]: "absent" (request.args.get      *)
(* gives None), "empty" (the empty string), "bad" (text int() rejects) or  *)
(* "int" (text int() reads as val).  A list parameter (display_dims,       *)
(* fixed_indices) is [given, tokens]: given is the truth value of the raw  *)
(* string, tokens are its comma separated parts, stripped, the empty ones  *)
(* dropped.  A result that Python delivers by return or by raising         *)
(* ValueError is a record whose err field is "" or the message raised.     *)
(* A dict is a sequence of [key, value] entries in insertion order.        *)
(***************************************************************************)
MAX_ELEMENTS == 1000000

MAX_JSON_ELEMENTS == 500000

MAX_MATRIX_ROWS == 2000

MAX_MATRIX_COLS == 2000

MAX_LINE_POINTS == 5000

MAX_LINE_EXACT_POINTS == 20000

MAX_HEATMAP_SIZE == 1024

DEFAULT_ROW_LIMIT == 100

DEFAULT_COL_LIMIT == 100

DEFAULT_MAX_SIZE == 512

Absent == [kind |-> "absent", val |-> 0]

EmptyText == [kind |-> "empty", val |-> 0]

BadText == [kind |-> "bad", val |-> 0]

IntText(n) == [kind |-> "int", val |-> n]

\* the truth value of a raw parameter string
Truthy(raw) == raw.kind \in {"bad", "int"}

NotGiven == [given |-> FALSE, tokens |-> <<>>]

Given(tokens) == [given |-> TRUE, tokens |-> tokens]

Ok(v) == [err |-> "", val |-> v]

Raise(msg) == [err |-> msg, val |-> <<>>]

\* dim < 0: dim = ndim + dim
ResolveDim(dim, ndim) == IF dim < 0 THEN ndim + dim ELSE dim

\* _parse_display_dims: None is <<>>, a pair is <<row_dim, col_dim>>
ParseDisplayDims(param, ndim) ==
    IF ndim < 2 THEN Ok(<<>>)
    ELSE IF ~param.given THEN Ok(<<ndim - 2, ndim - 1>>)
    ELSE IF Len(param.tokens) # 2
    THEN Raise("display_dims must include two distinct dims")
    ELSE LET first == param.tokens[1]
             second == param.tokens[2]
             d1 == ResolveDim(first.val, ndim)
             d2 == ResolveDim(second.val, ndim)
         IN  IF ~first.ok THEN Raise("Invalid display_dims parameter")
             ELSE IF d1 < 0 \/ d1 >= ndim THEN Raise("display_dims out of range")
             ELSE IF ~second.ok THEN Raise("Invalid display_dims parameter")
             ELSE IF d2 < 0 \/ d2 >= ndim THEN Raise("display_dims out of range")
             ELSE IF d1 = d2
             THEN Raise("display_dims must include two distinct dims")
             ELSE Ok(<<d1, d2>>)

\* the loop of _parse_fixed_indices over the parts left, indices being the
\* dict built so far
RECURSIVE ParseFixedLoop(_, _, _)
ParseFixedLoop(tokens, ndim, indices) ==
    IF tokens = <<>> THEN Ok(indices)
    ELSE LET part == Head(tokens)
             dim == ResolveDim(part.dim, ndim)
         IN  IF ~part.ok THEN Raise("Invalid fixed_indices parameter")
             ELSE IF dim < 0 \/ dim >= ndim
             THEN Raise("fixed_indices dim out of range")
             ELSE ParseFixedLoop(Tail(tokens), ndim,
                      SetItem(indices, dim, [key |-> dim, value |-> part.idx]))

\* _parse_fixed_indices
ParseFixedIndices(param, ndim) ==
    IF ~param.given THEN Ok(<<>>)
    ELSE ParseFixedLoop(param.tokens, ndim, <<>>)

\* shape[dim], dims counted from 0
SizeOf(shape, dim) == shape[dim + 1]

\* size // 2 if size > 0 else 0
MidIndex(size) == IF size > 0 THEN size \div 2 ELSE 0

\* "dim in display_dims", display_dims being None (<<>>) or a pair
InDisplay(dim, display_dims) ==
    \E i \in 1..Len(display_dims) : display_dims[i] = dim

\* _fill_fixed_indices: the loop over dim = from .. len(shape) - 1
RECURSIVE FillFixedIndices(_, _, _, _)
FillFixedIndices(fixed, shape, display_dims, from) ==
    IF from >= Len(shape) THEN fixed
    ELSE IF InDisplay(from, display_dims) \/ Has(fixed, from)
    THEN FillFixedIndices(fixed, shape, display_dims, from + 1)
    ELSE FillFixedIndices(
             Append(fixed, [key |-> from, value |-> MidIndex(SizeOf(shape, from))]),
             shape, display_dims, from + 1)

\* fixed_indices with the entries of display dims kept
KeepDisplayDims(fixed, display_dims) == fixed

\* _normalize_selection: the entries of display dims are deleted
DropDisplayDims(fixed, display_dims) ==
    SelectSeq(fixed, LAMBDA e : ~InDisplay(e.key, display_dims))

\* an index read without counting a negative one from the end
NormalizedIndexAsGiven(idx, size) == idx

\* an index as _normalize_selection reads it against the size of its axis
NormalizedIndex(idx, size) == IF idx >= 0 THEN idx ELSE size + idx

\* _normalize_selection: the loop over the entries from position i on
RECURSIVE RangeCheckLoop(_, _, _)
RangeCheckLoop(fixed, shape, i) ==
    IF i > Len(fixed) THEN Ok(fixed)
    ELSE LET dim == fixed[i].key
             size == SizeOf(shape, dim)
             normalized == NormalizedIndex(fixed[i].value, size)
         IN  IF size <= 0
             THEN RangeCheckLoop([fixed EXCEPT ![i].value = 0], shape, i + 1)
             ELSE IF normalized < 0 \/ normalized >= size
             THEN Raise("fixed_indices index out of range for dim " \o ToString(dim))
             ELSE RangeCheckLoop([fixed EXCEPT ![i].value = normalized],
                                 shape, i + 1)

\* _normalize_selection: val is [display_dims, fixed_indices]
NormalizeSelection(shape, display_dims_param, fixed_indices_param) ==
    LET ndim == Len(shape)
        dd == ParseDisplayDims(display_dims_param, ndim)
        fi == ParseFixedIndices(fixed_indices_param, ndim)
    IN  IF dd.err # "" THEN Raise(dd.err)
        ELSE IF fi.err # "" THEN Raise(fi.err)
        ELSE LET checked == RangeCheckLoop(DropDisplayDims(fi.val, dd.val), shape, 1)
             IN  IF checked.err # "" THEN Raise(checked.err)
                 ELSE Ok([display_dims |-> dd.val,
                          fixed_indices |->
                              FillFixedIndices(checked.val, shape, dd.val, 0)])

(***************************************************************************)
(* routes/hdf5.py: scalar parameters and limits.                           *)
(***************************************************************************)
\* math.ceil(a / b) for a >= 0 and b >= 1
CeilDiv(a, b) == (a + b - 1) \div b

\* _parse_int_param: default and the value returned are optional integers
ParseIntParam(raw, name, default, min_value) ==
    IF raw.kind = "absent" THEN Ok(default)
    ELSE IF raw.kind # "int" THEN Raise("Invalid " \o name \o " parameter")
    ELSE IF min_value # <<>> /\ raw.val < min_value[1]
    THEN Raise(name \o " must be >= " \o ToString(min_value[1]))
    ELSE Ok(<<raw.val>>)

\* A raw word parameter (mode, quality, detail, include_stats, line_dim) is
\* None when absent, else its text; str(x).strip().lower() of the texts used
StripLower(text) ==
    CASE text = " Heatmap " -> "heatmap"
      [] text = "MATRIX" -> "matrix"
      [] text = " Exact" -> "exact"
      [] text = "TRUE" -> "true"
      [] text = " Off " -> "off"
      [] text = "FAST " -> "fast"
      [] OTHER -> text

\* text.lower() of the texts used
Lower(text) ==
    CASE text = " Heatmap " -> " heatmap "
      [] text = "MATRIX" -> "matrix"
      [] OTHER -> StripLower(text)

\* "not x" of a raw word parameter
Falsy(word) == word = None \/ word = ""

\* _parse_line_quality
ParseLineQuality(param) ==
    IF Falsy(param) THEN Ok("auto")
    ELSE IF StripLower(param) \notin {"auto", "overview", "exact"}
    THEN Raise("Invalid quality parameter")
    ELSE Ok(StripLower(param))

\* _parse_preview_detail
ParsePreviewDetailLenient(param) ==
    IF Falsy(param) \/ StripLower(param) \notin {"fast", "full"} THEN Ok("full")
    ELSE Ok(StripLower(param))

ParsePreviewDetail(param) ==
    IF Falsy(param) THEN Ok("full")
    ELSE IF StripLower(param) \notin {"fast", "full"}
    THEN Raise("Invalid detail parameter")
    ELSE Ok(StripLower(param))

\* _parse_bool_param
ParseBoolParam(raw, name, default) ==
    IF raw = None THEN Ok(default)
    ELSE IF StripLower(raw) \in {"1", "true", "yes", "on"} THEN Ok(TRUE)
    ELSE IF StripLower(raw) \in {"0", "false", "no", "off"} THEN Ok(FALSE)
    ELSE Raise("Invalid " \o name \o " parameter")

\* _parse_line_dim: a raw line_dim is [kind, val, text] with kind "absent",
\* "empty", "word" (text is not an integer) or "int"; the value returned is
\* [kind, dim] with kind "none" (None), "row", "col" or "int"
LineDim(kind, dim) == [kind |-> kind, dim |-> dim]

ParseLineDim(param, ndim) ==
    IF param.kind \in {"absent", "empty"} THEN Ok(LineDim("none", 0))
    ELSE IF param.kind = "word"
    THEN IF StripLower(param.text) \in {"row", "col"}
         THEN Ok(LineDim(StripLower(param.text), 0))
         ELSE Raise("Invalid line_dim parameter")
    ELSE LET dim == ResolveDim(param.val, ndim)
         IN  IF dim < 0 \/ dim >= ndim THEN Raise("line_dim out of range")
             ELSE Ok(LineDim("int", dim))

\* the search as it would be if it returned the first size that fits
RECURSIVE SafeSizeSearchFirstFit(_, _, _, _, _, _)
SafeSizeSearchFirstFit(rows, cols, cap, low, high, best) ==
    IF low > high THEN best
    ELSE LET mid == (low + high) \div 2
         IN  IF Min(rows, mid) * Min(cols, mid) <= cap
             THEN mid
             ELSE SafeSizeSearchFirstFit(rows, cols, cap, low, mid - 1, best)

\* the binary search of _compute_safe_heatmap_size: low, high, best
RECURSIVE SafeSizeSearch(_, _, _, _, _, _)
SafeSizeSearch(rows, cols, cap, low, high, best) ==
    IF low > high THEN best
    ELSE LET mid == (low + high) \div 2
         IN  IF Min(rows, mid) * Min(cols, mid) <= cap
             THEN SafeSizeSearch(rows, cols, cap, mid + 1, high, mid)
             ELSE SafeSizeSearch(rows, cols, cap, low, mid - 1, best)

\* how many times the while loop of _compute_safe_heatmap_size runs from low
\* and high
RECURSIVE SafeSizeIterations(_, _, _, _, _)
SafeSizeIterations(rows, cols, cap, low, high) ==
    IF low > high THEN 0
    ELSE LET mid == (low + high) \div 2
         IN  1 + (IF Min(rows, mid) * Min(cols, mid) <= cap
                  THEN SafeSizeIterations(rows, cols, cap, mid + 1, high)
                  ELSE SafeSizeIterations(rows, cols, cap, low, mid - 1))

\* the largest size within the cap, whatever the size requested
ComputeSafeHeatmapSizeUnbounded(rows, cols, requested_size) ==
    IF requested_size <= 0 THEN 1
    ELSE SafeSizeSearch(rows, cols, Min(MAX_JSON_ELEMENTS, MAX_ELEMENTS), 1,
                        MAX_HEATMAP_SIZE, 1)

\* _compute_safe_heatmap_size
ComputeSafeHeatmapSize(rows, cols, requested_size) ==
    IF requested_size <= 0 THEN 1
    ELSE LET cap == Min(MAX_JSON_ELEMENTS, MAX_ELEMENTS)
         IN  IF Min(rows, requested_size) * Min(cols, requested_size) <= cap
             THEN requested_size
             ELSE SafeSizeSearch(rows, cols, cap, 1, requested_size, 1)

\* _enforce_element_limits: "" or the message raised
EnforceElementLimitsNever(count) == ""

EnforceElementLimits(count) ==
    IF count > MAX_JSON_ELEMENTS
    THEN "Selection too large for JSON (" \o ToString(count) \o " > "
             \o ToString(MAX_JSON_ELEMENTS) \o " elements)"
    ELSE IF count > MAX_ELEMENTS
    THEN "Selection exceeds max_elements (" \o ToString(count) \o " > "
             \o ToString(MAX_ELEMENTS) \o " elements)"
    ELSE ""

(***************************************************************************)
(* Exceptions, the stored object and the reader.                           *)
(*                                                                         *)
(* A call that returns or raises is a record [exc, val]; exc is NoExc or   *)
(* [type, msg].  The object store holds one HDF5 file under FileKey; its   *)
(* version counts the uploads (0: the object does not exist) and its ETag  *)
(* changes with every upload.  The file holds the group "/", the dataset   *)
(* "/d" of the given shape and the empty group "/g".  What h5py reads from *)
(* a dataset is abstracted to the version read and the indexer used.       *)
(***************************************************************************)
NoExc == [type |-> "", msg |-> ""]

Return(v) == [exc |-> NoExc, val |-> v]

Throw(type, msg) == [exc |-> [type |-> type, msg |-> msg], val |-> <<>>]

\* a ValueError raised by one of the parsers above, as an exception
FromParse(r) == Throw("ValueError", r.err)

FileKey == "a.h5"

PathKind(path) ==
    CASE path = "/" -> "group"
      [] path = "/d" -> "dataset"
      [] path = "/g" -> "group"
      [] OTHER -> "absent"

\* response['ETag'] of head_object for an object version
ETagHeader(v) == "\"v" \o ToString(v) \o "\""

\* s.strip('"') of the ETag headers
StripQuotes(text) ==
    CASE text = ETagHeader(1) -> "v1"
      [] text = ETagHeader(2) -> "v2"
      [] text = ETagHeader(3) -> "v3"
      [] OTHER -> text

\* MinIOClient.get_object_metadata: the 'etag' of the metadata
GetObjectMetadata(key, v) ==
    IF v = 0 THEN Throw("ClientError", "Not Found")
    ELSE Return(StripQuotes(ETagHeader(v)))

NotFoundMessage(path, key) == "Path '" \o path \o "' not found in '" \o key \o "'"

NotDatasetMessage(path) == "Path '" \o path \o "' is not a dataset"

\* s3.open, h5py.File, "path not in hdf", isinstance(obj, h5py.Dataset)
OpenDataset(key, path, v) ==
    IF v = 0 THEN Throw("FileNotFoundError", key)
    ELSE IF PathKind(path) = "absent"
    THEN Throw("ValueError", NotFoundMessage(path, key))
    ELSE IF PathKind(path) # "dataset"
    THEN Throw("TypeError", NotDatasetMessage(path))
    ELSE Return(<<>>)

\* an element of an indexer
Slice(start, stop, step) ==
    [kind |-> "slice", start |-> start, stop |-> stop, step |-> step]

Index(i) == [kind |-> "index", start |-> i, stop |-> i, step |-> 0]

\* dict.get(dim, 0)
GetOr0(fixed, dim) == IF Has(fixed, dim) THEN EntryOf(fixed, dim).value ELSE 0

\* obj[tuple(indexer)]: h5py rejects a scalar index outside its axis
H5Read(shape, v, indexer) ==
    IF \E d \in 1..Len(indexer) :
           /\ indexer[d].kind = "index"
           /\ LET i == IF indexer[d].start < 0
                       THEN shape[d] + indexer[d].start
                       ELSE indexer[d].start
              IN  i < 0 \/ i >= shape[d]
    THEN Throw("IndexError", "Index out of range")
    ELSE Return([version |-> v, indexer |-> indexer, transposed |-> FALSE])

\* the empty list
EmptyData == [version |-> 0, indexer |-> <<>>, transposed |-> FALSE]

\* len(range(start, stop, step)) of a slice taken from an axis of n elements
SliceLen(s, n) ==
    LET start == Min(s.start, n)
        stop == Min(s.stop, n)
    IN  IF stop > start THEN CeilDiv(stop - start, s.step) ELSE 0

\* the index of an axis, counted from the end of the axis when negative
AxisIndex(i, n) == IF i < 0 THEN n + i ELSE i

\* the positions of the indexer that hold a slice, in the order of the axes
SlicedAxes(indexer) ==
    SelectSeq([d \in 1..Len(indexer) |-> d], LAMBDA d : indexer[d].kind = "slice")

\* the coordinates of the element (i, j) of obj[tuple(indexer)] with two
\* slices, i and j counted from 1: the first sliced axis runs along the rows
Coordinates(indexer, shape, i, j) ==
    LET p == SlicedAxes(indexer)[1]
        q == SlicedAxes(indexer)[2]
    IN  [d \in 1..Len(indexer) |->
            IF d = p THEN indexer[p].start + (i - 1) * indexer[p].step
            ELSE IF d = q THEN indexer[q].start + (j - 1) * indexer[q].step
            ELSE AxisIndex(indexer[d].start, shape[d])]

\* what was read from a dataset of the shape with two slices, as the list of
\* lists that _sanitize makes of it: an element is written as its coordinates
\* in the dataset; data.T has the second sliced axis along the rows
ArrayOf(data, shape) ==
    IF data.indexer = <<>> THEN <<>>
    ELSE LET p == SlicedAxes(data.indexer)[1]
             q == SlicedAxes(data.indexer)[2]
             np == SliceLen(data.indexer[p], shape[p])
             nq == SliceLen(data.indexer[q], shape[q])
         IN  IF data.transposed
             THEN [j \in 1..nq |->
                      [i \in 1..np |-> Coordinates(data.indexer, shape, i, j)]]
             ELSE [i \in 1..np |->
                      [j \in 1..nq |-> Coordinates(data.indexer, shape, i, j)]]

\* needs_transpose of a reader that never transposes
NeedsTransposeNever(row_dim, col_dim) == FALSE

\* needs_transpose = row_dim > col_dim
NeedsTranspose(row_dim, col_dim) == row_dim > col_dim

\* HDF5Reader.get_dataset_info
GetDatasetInfo(key, path, shape, v) ==
    LET opened == OpenDataset(key, path, v)
    IN  IF opened.exc # NoExc THEN opened
        ELSE Return([shape |-> shape, ndim |-> Len(shape)])

\* HDF5Reader._build_indexer: dim_slices holds the slices of the two display
\* dims, in their order
BuildIndexer(ndim, display_dims, fixed_indices, dim_slices) ==
    [d \in 1..ndim |->
        IF d - 1 = display_dims[1] THEN dim_slices[1]
        ELSE IF d - 1 = display_dims[2] THEN dim_slices[2]
        ELSE Index(GetOr0(fixed_indices, d - 1))]

\* HDF5Reader.get_matrix; a is the record of the arguments passed
GetMatrix(a, shape, v) ==
    LET opened == OpenDataset(a.key, a.path, v)
        ndim == Len(shape)
        rows == SizeOf(shape, a.display_dims[1])
        cols == SizeOf(shape, a.display_dims[2])
        row_offset == Max(0, Min(a.row_offset, rows))
        col_offset == Max(0, Min(a.col_offset, cols))
        row_limit == Max(0, Min(a.row_limit, rows - row_offset))
        col_limit == Max(0, Min(a.col_limit, cols - col_offset))
        out_rows == IF row_limit > 0 THEN CeilDiv(row_limit, a.row_step) ELSE 0
        out_cols == IF col_limit > 0 THEN CeilDiv(col_limit, a.col_step) ELSE 0
        read == H5Read(shape, v,
                    BuildIndexer(ndim, a.display_dims, a.fixed_indices,
                        <<Slice(row_offset, row_offset + row_limit, a.row_step),
                          Slice(col_offset, col_offset + col_limit, a.col_step)>>))
        result(data) ==
            Return([data |-> data, shape |-> <<out_rows, out_cols>>,
                    row_offset |-> row_offset, col_offset |-> col_offset,
                    downsample_info |-> <<a.row_step, a.col_step>>])
    IN  IF opened.exc # NoExc THEN opened
        ELSE IF ndim < 2
        THEN Throw("TypeError", "Matrix mode requires a 2D or higher dataset")
        ELSE IF row_limit = 0 \/ col_limit = 0
        THEN result(EmptyData)
        ELSE IF read.exc # NoExc THEN read
        ELSE result([read.val EXCEPT
                         !.transposed = NeedsTranspose(a.display_dims[1],
                                                       a.display_dims[2])])

\* HDF5Reader.get_heatmap; a is the record of the arguments passed
GetHeatmap(a, shape, v) ==
    LET opened == OpenDataset(a.key, a.path, v)
        ndim == Len(shape)
        rows == SizeOf(shape, a.display_dims[1])
        cols == SizeOf(shape, a.display_dims[2])
        target_rows == Min(rows, a.max_size)
        target_cols == Min(cols, a.max_size)
        step_r == IF target_rows > 0 THEN Max(1, CeilDiv(rows, target_rows)) ELSE 1
        step_c == IF target_cols > 0 THEN Max(1, CeilDiv(cols, target_cols)) ELSE 1
        read == H5Read(shape, v,
                    BuildIndexer(ndim, a.display_dims, a.fixed_indices,
                        <<Slice(0, rows, step_r), Slice(0, cols, step_c)>>))
        data == [read.val EXCEPT
                     !.transposed = NeedsTranspose(a.display_dims[1],
                                                   a.display_dims[2])]
        list == ArrayOf(data, shape)
    IN  IF opened.exc # NoExc THEN opened
        ELSE IF ndim < 2
        THEN Throw("TypeError", "Heatmap mode requires a 2D or higher dataset")
        ELSE IF read.exc # NoExc THEN read
        ELSE Return([data |-> data,
                     shape |-> <<Len(list), IF Len(list) > 0 THEN Len(list[1]) ELSE 0>>,
                     row_offset |-> 0, col_offset |-> 0,
                     downsample_info |-> <<step_r, step_c>>,
                     sampled |-> (step_r > 1 \/ step_c > 1)])

\* HDF5Reader.get_line: the indexer built for a line along vary_dim
LineIndexer(ndim, vary_dim, axis, a, line_slice) ==
    [d \in 1..ndim |->
        IF d - 1 = vary_dim THEN line_slice
        ELSE IF axis = "row" /\ d - 1 = a.display_dims[1] THEN Index(a.line_index[1])
        ELSE IF axis = "col" /\ d - 1 = a.display_dims[2] THEN Index(a.line_index[1])
        ELSE Index(GetOr0(a.fixed_indices, d - 1))]

\* HDF5Reader.get_line
GetLine(a, shape, v) ==
    LET opened == OpenDataset(a.key, a.path, v)
        ndim == Len(shape)
        by_dim == ndim = 1 \/ a.line_dim.kind = "int"
        axis == IF by_dim THEN "dim"
                ELSE IF a.line_dim.kind = "col" THEN "col" ELSE "row"
        vary_dim == IF ndim = 1 THEN 0
                    ELSE IF a.line_dim.kind = "int" THEN a.line_dim.dim
                    ELSE IF a.line_dim.kind = "col" THEN a.display_dims[1]
                    ELSE a.display_dims[2]
        line_offset == Max(0, a.line_offset)
        line_limit == Max(0, a.line_limit)
        read == H5Read(shape, v,
                    LineIndexer(ndim, vary_dim, axis, a,
                        Slice(line_offset, line_offset + line_limit, a.line_step)))
        result(data, out_count) ==
            Return([data |-> data, shape |-> <<out_count>>, axis |-> axis,
                    index |-> IF by_dim THEN <<>> ELSE a.line_index,
                    downsample_info |-> <<a.line_step>>])
    IN  IF opened.exc # NoExc THEN opened
        ELSE IF ~by_dim /\ a.display_dims = <<>>
        THEN Throw("ValueError", "display_dims required for row/col line")
        ELSE IF line_limit = 0 THEN result(EmptyData, 0)
        ELSE IF read.exc # NoExc THEN read
        ELSE result(read.val, CeilDiv(line_limit, a.line_step))

\* HDF5Reader.get_children: the names of the children
GetChildren(a, v) ==
    IF v = 0 THEN Throw("FileNotFoundError", a.key)
    ELSE IF a.path = "/" THEN Return(<<"d", "g">>)
    ELSE Return(<<>>)

\* HDF5Reader.get_metadata
GetMetadata(a, shape, v) ==
    IF v = 0 THEN Throw("FileNotFoundError", a.key)
    ELSE IF PathKind(a.path) = "absent"
    THEN Throw("ValueError", NotFoundMessage(a.path, a.key))
    ELSE Return([kind |-> PathKind(a.path), version |-> v])

\* the parameters that the methods of HDF5Reader declare
ReaderParams(method) ==
    CASE method = "get_dataset_info" -> {"key", "path"}
      [] method = "get_children" -> {"key", "path"}
      [] method = "get_metadata" -> {"key", "path"}
      [] method = "get_preview" ->
            {"key", "path", "display_dims", "fixed_indices", "mode", "max_size"}
      [] method = "get_matrix" ->
            {"key", "path", "display_dims", "fixed_indices", "row_offset",
             "row_limit", "col_offset", "col_limit", "row_step", "col_step"}
      [] method = "get_line" ->
            {"key", "path", "display_dims", "fixed_indices", "line_dim",
             "line_index", "line_offset", "line_limit", "line_step"}
      [] method = "get_heatmap" ->
            {"key", "path", "display_dims", "fixed_indices", "max_size"}

\* the keyword arguments of a call that the method does not declare
Unexpected(method, kwargs) ==
    SelectSeq(kwargs, LAMBDA name : name \notin ReaderParams(method))

\* what the reader double of the tests (unittest.mock.Mock) returns
MockReturn(method, shape) ==
    IF method = "get_dataset_info"
    THEN Return([shape |-> shape, ndim |-> Len(shape)])
    ELSE IF method = "get_children" THEN Return(<<"d", "g">>)
    ELSE Return([mock |-> method])

\* the reader doubles of the tests: a Mock, a Mock whose methods have the
\* side_effect ValueError("Path ... not found in ...") and one whose methods
\* have the side_effect TypeError("Path ... is not a dataset")
MockKinds == {"Mock", "MockNotFound", "MockNotDataset"}

\* whether the call binds: the production reader raises TypeError on a keyword
\* argument it does not declare, the Mock of the tests takes any
ReaderBinds(kind, method, kwargs) ==
    kind \in MockKinds \/ Unexpected(method, kwargs) = <<>>

\* reader.<method>(...) as the routes call it: a holds the arguments, kwargs
\* names those passed by keyword
ReaderCall(kind, method, a, kwargs, shape, v) ==
    IF ~ReaderBinds(kind, method, kwargs)
    THEN Throw("TypeError",
               method \o "() got an unexpected keyword argument '"
                   \o Head(Unexpected(method, kwargs)) \o "'")
    ELSE IF kind = "Mock" THEN MockReturn(method, shape)
    ELSE IF kind = "MockNotFound"
    THEN Throw("ValueError", NotFoundMessage(a.path, a.key))
    ELSE IF kind = "MockNotDataset"
    THEN Throw("TypeError", NotDatasetMessage(a.path))
    ELSE CASE method = "get_dataset_info" -> GetDatasetInfo(a.key, a.path, shape, v)
           [] method = "get_children" -> GetChildren(a, v)
           [] method = "get_metadata" -> GetMetadata(a, shape, v)
           [] method = "get_matrix" -> GetMatrix(a, shape, v)
           [] method = "get_line" -> GetLine(a, shape, v)
           [] OTHER -> Return([method |-> method, version |-> v])

(***************************************************************************)
(* routes/hdf5.py: requests, responses and the /data planner.              *)
(*                                                                         *)
(* A request is [endpoint, key, args]; args holds the raw query            *)
(* parameters.  A response is [status, body].                              *)
(***************************************************************************)
NoLineDim == [kind |-> "absent", val |-> 0, text |-> ""]

NoArgs ==
    [path |-> None, mode |-> None, etag |-> None,
     display_dims |-> NotGiven, fixed_indices |-> NotGiven,
     row_offset |-> Absent, row_limit |-> Absent, row_step |-> Absent,
     col_offset |-> Absent, col_limit |-> Absent, col_step |-> Absent,
     max_size |-> Absent, include_stats |-> None, detail |-> None,
     line_dim |-> NoLineDim, quality |-> None, line_index |-> Absent,
     line_offset |-> Absent, line_limit |-> Absent, max_points |-> Absent]

\* s.strip() of the texts used
Strip(text) ==
    CASE text = " v1 " -> "v1"
      [] text = "  " -> ""
      [] text = " Heatmap " -> "Heatmap"
      [] OTHER -> text

ErrorResponse(status, msg) ==
    [status |-> status, body |-> [success |-> FALSE, error |-> msg]]

\* _is_not_found_error: 'not found' in str(error).lower(); of the messages
\* raised, those of NotFoundMessage hold it
IsNotFoundError(exc) ==
    \E path \in {"/", "/d", "/g", "/x"} : exc.msg = NotFoundMessage(path, FileKey)

\* the except clauses of get_preview and get_data
DataExcept(exc) ==
    IF exc.type = "ValueError"
    THEN ErrorResponse(IF IsNotFoundError(exc) THEN 404 ELSE 400, exc.msg)
    ELSE IF exc.type = "TypeError" THEN ErrorResponse(400, exc.msg)
    ELSE ErrorResponse(500, exc.msg)

\* the except clause of get_children and get_metadata
TreeExcept(exc) == ErrorResponse(500, exc.msg)

\* _resolve_cache_version_tag
ResolveCacheVersionTag(etag) ==
    IF etag = None THEN "ttl"
    ELSE IF Strip(etag) = "" THEN "ttl" ELSE Strip(etag)

\* _serialize_request_args(exclude_keys={'etag'}): the parameters by name, the
\* etag left out
SerializeRequestArgs(args) == [args EXCEPT !.etag = None]

\* the first message raised among results evaluated in order, or ""
FirstErr(results) ==
    IF \A i \in 1..Len(results) : results[i].err = "" THEN ""
    ELSE results[CHOOSE i \in 1..Len(results) :
                     /\ results[i].err # ""
                     /\ \A j \in 1..(i - 1) : results[j].err = ""].err

\* get_data, mode == 'matrix': the reader call planned, or the exception
\* get_data, matrix: the check of the limits clamped to the dataset; "" when
\* nothing is raised
MatrixLimitsErrorRowsOnly(row_limit, col_limit) ==
    IF row_limit > MAX_MATRIX_ROWS
    THEN "Matrix limits exceed " \o ToString(MAX_MATRIX_ROWS) \o "x"
             \o ToString(MAX_MATRIX_COLS)
    ELSE ""

MatrixLimitsError(row_limit, col_limit) ==
    IF row_limit > MAX_MATRIX_ROWS \/ col_limit > MAX_MATRIX_COLS
    THEN "Matrix limits exceed " \o ToString(MAX_MATRIX_ROWS) \o "x"
             \o ToString(MAX_MATRIX_COLS)
    ELSE ""

PlanMatrix(key, path, args, shape, display_dims, fixed_indices) ==
    LET ro == ParseIntParam(args.row_offset, "row_offset", <<0>>, <<0>>)
        co == ParseIntParam(args.col_offset, "col_offset", <<0>>, <<0>>)
        rl == ParseIntParam(args.row_limit, "row_limit", <<DEFAULT_ROW_LIMIT>>, <<1>>)
        cl == ParseIntParam(args.col_limit, "col_limit", <<DEFAULT_COL_LIMIT>>, <<1>>)
        rs == ParseIntParam(args.row_step, "row_step", <<1>>, <<1>>)
        cs == ParseIntParam(args.col_step, "col_step", <<1>>, <<1>>)
        err == FirstErr(<<ro, co, rl, cl, rs, cs>>)
        rows == SizeOf(shape, display_dims[1])
        cols == SizeOf(shape, display_dims[2])
        row_limit == Min(rl.val[1], Max(0, rows - ro.val[1]))
        col_limit == Min(cl.val[1], Max(0, cols - co.val[1]))
        element_count == CeilDiv(row_limit, rs.val[1]) * CeilDiv(col_limit, cs.val[1])
    IN  IF err # "" THEN Throw("ValueError", err)
        ELSE IF MatrixLimitsError(row_limit, col_limit) # ""
        THEN Throw("ValueError", MatrixLimitsError(row_limit, col_limit))
        ELSE IF EnforceElementLimits(element_count) # ""
        THEN Throw("ValueError", EnforceElementLimits(element_count))
        ELSE Return([method |-> "get_matrix",
                     kwargs |-> <<"row_step", "col_step">>,
                     args |-> [key |-> key, path |-> path,
                               display_dims |-> display_dims,
                               fixed_indices |-> fixed_indices,
                               row_offset |-> ro.val[1], row_limit |-> row_limit,
                               col_offset |-> co.val[1], col_limit |-> col_limit,
                               row_step |-> rs.val[1], col_step |-> cs.val[1]],
                     fields |-> [mode |-> "matrix"]])

\* get_data, mode == 'heatmap'
PlanHeatmap(key, path, args, shape, display_dims, fixed_indices) ==
    LET ms == ParseIntParam(args.max_size, "max_size", <<DEFAULT_MAX_SIZE>>, <<1>>)
        st == ParseBoolParam(args.include_stats, "include_stats", TRUE)
        err == FirstErr(<<ms, st>>)
        requested_max_size == ms.val[1]
        rows == SizeOf(shape, display_dims[1])
        cols == SizeOf(shape, display_dims[2])
        effective_max_size == ComputeSafeHeatmapSize(rows, cols, requested_max_size)
        element_count == Min(rows, effective_max_size) * Min(cols, effective_max_size)
    IN  IF err # "" THEN Throw("ValueError", err)
        ELSE IF requested_max_size > MAX_HEATMAP_SIZE
        THEN Throw("ValueError", "max_size exceeds " \o ToString(MAX_HEATMAP_SIZE))
        ELSE IF EnforceElementLimits(element_count) # ""
        THEN Throw("ValueError", EnforceElementLimits(element_count))
        ELSE Return([method |-> "get_heatmap",
                     kwargs |-> <<"include_stats">>,
                     args |-> [key |-> key, path |-> path,
                               display_dims |-> display_dims,
                               fixed_indices |-> fixed_indices,
                               max_size |-> effective_max_size,
                               include_stats |-> st.val],
                     fields |-> [mode |-> "heatmap",
                                 requested_max_size |-> requested_max_size,
                                 effective_max_size |-> effective_max_size,
                                 max_size_clamped |->
                                     effective_max_size # requested_max_size]])

\* get_data, mode == 'line': the loop that fixes every dim but line_dim
RECURSIVE FillLineFixed(_, _, _, _)
FillLineFixed(fixed, shape, line_dim, from) ==
    IF from >= Len(shape) THEN fixed
    ELSE IF from = line_dim \/ Has(fixed, from)
    THEN FillLineFixed(fixed, shape, line_dim, from + 1)
    ELSE FillLineFixed(
             Append(fixed, [key |-> from, value |-> MidIndex(SizeOf(shape, from))]),
             shape, line_dim, from + 1)

\* get_data, mode == 'line'
\* get_data, line: max_points = min(max_points, MAX_LINE_POINTS)
ClampMaxPointsNot(max_points) == max_points

ClampMaxPoints(max_points) == Min(max_points, MAX_LINE_POINTS)

\* get_data, line: the check of the window asked with quality=exact; "" when
\* nothing is raised
ExactWindowErrorNever(line_quality, requested_points) == ""

ExactWindowError(line_quality, requested_points) ==
    IF line_quality = "exact" /\ requested_points > MAX_LINE_EXACT_POINTS
    THEN "Exact line window exceeds " \o ToString(MAX_LINE_EXACT_POINTS)
             \o " points. Reduce line_limit/zoom window or use quality=overview."
    ELSE ""

\* get_data, line: quality_applied
QualityAppliedAsAsked(line_quality, requested_points) ==
    IF line_quality = "overview" THEN "overview" ELSE "exact"

QualityApplied(line_quality, requested_points) ==
    IF line_quality = "exact" THEN "exact"
    ELSE IF line_quality = "overview" THEN "overview"
    ELSE IF requested_points <= MAX_LINE_EXACT_POINTS THEN "exact"
    ELSE "overview"

\* get_data, line: line_step
LineStep(quality_applied, requested_points, max_points) ==
    IF quality_applied = "overview" /\ requested_points > 0
    THEN Max(1, CeilDiv(requested_points, max_points))
    ELSE 1

PlanLine(key, path, args, shape, normalized_dims, normalized_fixed) ==
    LET ndim == Len(shape)
        ld == ParseLineDim(args.line_dim, ndim)
        lq == ParseLineQuality(args.quality)
        li == ParseIntParam(args.line_index, "line_index", <<>>, <<0>>)
        lo == ParseIntParam(args.line_offset, "line_offset", <<0>>, <<0>>)
        ll == IF Truthy(args.line_limit)
              THEN ParseIntParam(args.line_limit, "line_limit", <<>>, <<1>>)
              ELSE Ok(<<>>)
        mp == IF Truthy(args.max_points)
              THEN ParseIntParam(args.max_points, "max_points", <<MAX_LINE_POINTS>>, <<1>>)
              ELSE Ok(<<MAX_LINE_POINTS>>)
        err == FirstErr(<<ld, lq, li, lo, ll, mp>>)
        line_dim == ld.val
        max_points == ClampMaxPoints(mp.val[1])
        fixed_indices ==
            IF line_dim.kind = "int"
            THEN FillLineFixed(normalized_fixed, shape, line_dim.dim, 0)
            ELSE normalized_fixed
        by_dim == ndim = 1 \/ line_dim.kind = "int"
        display_dims ==
            IF ~by_dim /\ normalized_dims = <<>> THEN <<ndim - 2, ndim - 1>>
            ELSE normalized_dims
        axis == IF by_dim THEN "dim"
                ELSE IF line_dim.kind = "col" THEN "col" ELSE "row"
        rows == SizeOf(shape, display_dims[1])
        cols == SizeOf(shape, display_dims[2])
        across == IF axis = "row" THEN rows ELSE cols
        line_length ==
            IF ndim = 1 THEN SizeOf(shape, 0)
            ELSE IF line_dim.kind = "int" THEN SizeOf(shape, line_dim.dim)
            ELSE IF axis = "row" THEN cols ELSE rows
        line_index ==
            IF by_dim \/ li.val # <<>> THEN li.val ELSE <<MidIndex(across)>>
        line_limit ==
            IF ll.val = <<>> THEN Max(0, line_length - lo.val[1])
            ELSE Min(ll.val[1], Max(0, line_length - lo.val[1]))
        requested_points == line_limit
        quality_applied == QualityApplied(lq.val, requested_points)
        line_step == LineStep(quality_applied, requested_points, max_points)
        output_points ==
            IF requested_points > 0 THEN CeilDiv(requested_points, line_step) ELSE 0
    IN  IF err # "" THEN Throw("ValueError", err)
        ELSE IF ~by_dim /\ (display_dims[1] < 0 \/ display_dims[2] < 0)
        THEN Throw("IndexError", "list index out of range")
        ELSE IF ~by_dim /\ (line_index[1] < 0 \/ line_index[1] >= across)
        THEN Throw("ValueError", "line_index out of range")
        ELSE IF ExactWindowError(lq.val, requested_points) # ""
        THEN Throw("ValueError", ExactWindowError(lq.val, requested_points))
        ELSE IF EnforceElementLimits(output_points) # ""
        THEN Throw("ValueError", EnforceElementLimits(output_points))
        ELSE Return([method |-> "get_line",
                     kwargs |-> <<>>,
                     args |-> [key |-> key, path |-> path,
                               display_dims |-> display_dims,
                               fixed_indices |-> fixed_indices,
                               line_dim |-> line_dim, line_index |-> line_index,
                               line_offset |-> lo.val[1], line_limit |-> line_limit,
                               line_step |-> line_step],
                     fields |-> [mode |-> "line",
                                 quality_requested |-> lq.val,
                                 quality_applied |-> quality_applied,
                                 line_offset |-> lo.val[1],
                                 line_limit |-> line_limit,
                                 requested_points |-> requested_points,
                                 line_step |-> line_step]])

\* get_data from the dataset info on: the selection, the check of ndim and the
\* plan of the mode; val is the reader call planned.  The return of the 400
\* response from inside the try block is the exception type "return".
PlanData(key, path, mode, args, info) ==
    LET selection == NormalizeSelection(info.shape, args.display_dims,
                                        args.fixed_indices)
        display_dims == selection.val.display_dims
        fixed_indices == selection.val.fixed_indices
    IN  IF selection.err # "" THEN FromParse(selection)
        ELSE IF mode \in {"matrix", "heatmap"} /\ (display_dims = <<>> \/ info.ndim < 2)
        THEN Throw("return", "Mode requires a 2D or higher dataset")
        ELSE CASE mode = "matrix" ->
                      PlanMatrix(key, path, args, info.shape, display_dims, fixed_indices)
               [] mode = "heatmap" ->
                      PlanHeatmap(key, path, args, info.shape, display_dims, fixed_indices)
               [] mode = "line" ->
                      PlanLine(key, path, args, info.shape, display_dims, fixed_indices)

(***************************************************************************)
(* routes/hdf5.py: the handlers.  A handler runs in the steps begin (the   *)
(* validation, the HEAD of /children and /meta, the cache key and          *)
(* cache.get), info and infoset (_get_cached_dataset_info: get and the     *)
(* reader call, then set), read (the plan and the reader call) and store   *)
(* (cache.set and the 200 response).  A step that responds ends the        *)
(* handler.  A frame is the state of one handler: its request, its locals  *)
(* and, as history, the HEADs and the reader calls it made.                *)
(***************************************************************************)
Clients == {"c1", "c2"}

\* make_cache_key joins the str() of the parts with ':'.  No part that the
\* routes are given below holds a ':', so two of their keys are equal exactly
\* when their parts are, and a key is kept as the tuple of its parts; JoinKey
\* is the join itself, on parts that are texts
MakeCacheKey(parts) == parts

CacheOf(endpoint) == IF endpoint = "data" THEN "data" ELSE "hdf5"

NoRequest == [endpoint |-> "", key |-> "", args |-> NoArgs]

NoResponse == [status |-> 0, body |-> <<>>]

IdleHandler ==
    [pc |-> "idle", req |-> NoRequest, resp |-> NoResponse,
     path |-> "", mode |-> "", cache_version |-> "", cache_key |-> <<>>,
     missed |-> FALSE, informed |-> FALSE, info |-> <<>>, payload |-> <<>>,
     heads |-> <<>>, calls |-> <<>>, began |-> 0, looked |-> 0, wrote |-> 0]

\* the handler answers
Respond(h, response) == [h EXCEPT !.pc = "done", !.resp = response]

\* cache.get of the routes as it would be if the handler set cached on the
\* dict returned instead of on a copy of it: the value stored says cached=true
LookupInPlace(c, key, t) ==
    LET got == CacheGet(c, key, t)
        hit == Has(got.cache.entries, key)
        value == IF hit THEN EntryOf(got.cache.entries, key).value ELSE <<>>
        marked == IF hit /\ "cached" \in DOMAIN value
                  THEN [value EXCEPT !.cached = TRUE] ELSE value
    IN  [cache |-> IF hit
                   THEN [got.cache EXCEPT
                            !.entries = SetItem(@, key,
                                [EntryOf(got.cache.entries, key) EXCEPT !.value = marked])]
                   ELSE got.cache,
         hit |-> hit,
         value |-> value]

\* cache.get of the routes: the values stored are never None, so get returned
\* a value exactly when the key is still stored after it
Lookup(c, key, t) ==
    LET got == CacheGet(c, key, t)
    IN  [cache |-> got.cache,
         hit |-> Has(got.cache.entries, key),
         value |-> IF Has(got.cache.entries, key)
                   THEN EntryOf(got.cache.entries, key).value ELSE <<>>]

\* the handler looks its cache up under cache_key at time t
LookupStep(h, cs, t, cache_key, cache_version, path, mode, hit_body(_)) ==
    LET name == CacheOf(h.req.endpoint)
        got == Lookup(cs[name], cache_key, t)
        h1 == [h EXCEPT !.cache_key = cache_key, !.cache_version = cache_version,
                        !.path = path, !.mode = mode, !.missed = ~got.hit,
                        !.looked = t]
    IN  [caches |-> [cs EXCEPT ![name] = got.cache],
         handler |-> IF got.hit
                     THEN Respond(h1, [status |-> 200, body |-> hit_body(got.value)])
                     ELSE [h1 EXCEPT !.pc = IF h.req.endpoint = "data"
                                             THEN "info" ELSE "read"]]

\* get_data up to cache.get
BeginData(h, cs, t) ==
    LET args == h.req.args
        cache_version == ResolveCacheVersionTag(args.etag)
        data_cache_key == MakeCacheKey(<<"data", h.req.key, cache_version,
                                         SerializeRequestArgs(args)>>)
        hit_body(cached_payload) ==
            [cached_payload EXCEPT !.cached = TRUE, !.cache_version = cache_version]
        fail(msg) == [caches |-> cs, handler |-> Respond(h, ErrorResponse(400, msg))]
    IN  IF Falsy(args.path) THEN fail("Missing required parameter: path")
        ELSE IF Falsy(args.mode) THEN fail("Missing required parameter: mode")
        ELSE IF Lower(args.mode) \notin {"matrix", "heatmap", "line"}
        THEN fail("Invalid mode parameter")
        ELSE LookupStep(h, cs, t, data_cache_key, cache_version, args.path,
                        Lower(args.mode), hit_body)

\* the mode of get_preview
PreviewMode(mode) ==
    IF mode = None THEN "auto"
    ELSE IF StripLower(mode) \in {"auto", "line", "table", "heatmap"}
    THEN StripLower(mode) ELSE "auto"

\* the include_stats and the max_size of get_preview
PreviewIncludeStats(args) ==
    ParseBoolParam(args.include_stats, "include_stats",
                   ParsePreviewDetail(args.detail).val = "full")

PreviewMaxSize(args) ==
    IF Truthy(args.max_size) THEN <<args.max_size.val>> ELSE <<>>

\* get_preview up to cache.get.  The key parts display_dims_key and
\* fixed_indices_key are 'none' for a parameter that is absent or empty and
\* its text otherwise, which is what NotGiven and Given tell apart;
\* max_size_key is 'default' or the integer.  The response is the preview dict
\* with success, cached and cache_version set on it: the dict is kept apart
\* as the field preview
BeginPreview(h, cs, t) ==
    LET args == h.req.args
        mode == PreviewMode(args.mode)
        detail == ParsePreviewDetail(args.detail)
        include_stats == PreviewIncludeStats(args)
        max_size == PreviewMaxSize(args)
        cache_version == ResolveCacheVersionTag(args.etag)
        cache_key == MakeCacheKey(<<"preview", h.req.key, cache_version, args.path,
                                    args.display_dims, args.fixed_indices,
                                    max_size, mode, detail.val, include_stats.val>>)
        hit_body(cached_data) ==
            [preview |-> cached_data, success |-> TRUE, cached |-> TRUE,
             cache_version |-> cache_version]
        fail(msg) == [caches |-> cs, handler |-> Respond(h, ErrorResponse(400, msg))]
    IN  IF Falsy(args.path) THEN fail("Missing required parameter: path")
        ELSE IF detail.err # "" THEN fail(detail.err)
        ELSE IF include_stats.err # "" THEN fail(include_stats.err)
        ELSE IF args.max_size.kind = "bad" THEN fail("Invalid max_size parameter")
        ELSE IF Truthy(args.max_size) /\ args.max_size.val <= 0
        THEN fail("max_size must be a positive integer")
        ELSE LookupStep(h, cs, t, cache_key, cache_version, args.path, mode, hit_body)

\* the 200 body of get_children and of get_metadata
TreeBody(endpoint, key, path, data, cached) ==
    IF endpoint = "children"
    THEN [success |-> TRUE, key |-> key, path |-> path, children |-> data,
          cached |-> cached]
    ELSE [success |-> TRUE, key |-> key, metadata |-> data, cached |-> cached]

\* get_children and get_metadata as they would be with the cache key of
\* /preview and /data, which has "ttl" where no etag is given
BeginTreeTTLKeyed(h, cs, t, v, path) ==
    LET head == GetObjectMetadata(h.req.key, v)
        h1 == [h EXCEPT !.heads = Append(@, v)]
        cache_key == MakeCacheKey(<<h.req.endpoint, h.req.key, "ttl", path>>)
        hit_body(cached_data) == TreeBody(h.req.endpoint, h.req.key, path,
                                          cached_data, TRUE)
    IN  IF head.exc # NoExc
        THEN [caches |-> cs, handler |-> Respond(h1, TreeExcept(head.exc))]
        ELSE LookupStep(h1, cs, t, cache_key, "ttl", path, "", hit_body)

\* get_children and get_metadata from the HEAD on, up to cache.get; v is the
\* version of the object at the time of the HEAD
BeginTree(h, cs, t, v, path) ==
    LET head == GetObjectMetadata(h.req.key, v)
        h1 == [h EXCEPT !.heads = Append(@, v)]
        etag == head.val
        cache_key == MakeCacheKey(<<h.req.endpoint, h.req.key, etag, path>>)
        hit_body(cached_data) == TreeBody(h.req.endpoint, h.req.key, path,
                                          cached_data, TRUE)
    IN  IF head.exc # NoExc
        THEN [caches |-> cs, handler |-> Respond(h1, TreeExcept(head.exc))]
        ELSE LookupStep(h1, cs, t, cache_key, etag, path, "", hit_body)

\* get_children: request.args.get('path', '/')
BeginChildren(h, cs, t, v) ==
    BeginTree(h, cs, t, v, IF h.req.args.path = None THEN "/" ELSE h.req.args.path)

\* get_metadata as it would be with the HEAD before the test of the path
BeginMetaHeadFirst(h, cs, t, v) ==
    BeginTree(h, cs, t, v, IF h.req.args.path = None THEN "" ELSE h.req.args.path)

\* get_metadata
BeginMeta(h, cs, t, v) ==
    IF Falsy(h.req.args.path)
    THEN [caches |-> cs,
          handler |-> Respond(h, ErrorResponse(400, "Missing required parameter: path"))]
    ELSE BeginTree(h, cs, t, v, h.req.args.path)

\* the step begin of a handler
BeginStep(h, cs, t, v) ==
    CASE h.req.endpoint = "data" -> BeginData(h, cs, t)
      [] h.req.endpoint = "preview" -> BeginPreview(h, cs, t)
      [] h.req.endpoint = "children" -> BeginChildren(h, cs, t, v)
      [] h.req.endpoint = "meta" -> BeginMeta(h, cs, t, v)

\* a reader call of a handler: the frame with the call recorded, and its result
Called(h, kind, method, a, kwargs, shape, v) ==
    [handler |-> [h EXCEPT !.calls = Append(@, [method |-> method, args |-> a,
                                                kwargs |-> kwargs,
                                                version |-> v])],
     result |-> ReaderCall(kind, method, a, kwargs, shape, v)]

DatasetCacheKey(h) ==
    MakeCacheKey(<<"dataset", h.req.key, h.cache_version, h.path>>)

\* _get_cached_dataset_info up to the return of reader.get_dataset_info
InfoStep(h, cs, t, kind, shape, v) ==
    LET got == Lookup(cs["dataset"], DatasetCacheKey(h), t)
        call == Called(h, kind, "get_dataset_info",
                       [key |-> h.req.key, path |-> h.path], <<>>, shape, v)
    IN  [caches |-> [cs EXCEPT !["dataset"] = got.cache],
         handler |->
             IF got.hit
             THEN [h EXCEPT !.pc = "read", !.informed = TRUE, !.info = got.value]
             ELSE IF call.result.exc # NoExc
             THEN Respond(call.handler, DataExcept(call.result.exc))
             ELSE [call.handler EXCEPT !.pc = "infoset", !.informed = TRUE,
                                       !.info = call.result.val]]

\* _get_cached_dataset_info as it would be if it did not keep the info
InfoSetStepNever(h, cs, t) == [caches |-> cs, handler |-> [h EXCEPT !.pc = "read"]]

\* _get_cached_dataset_info: dataset_cache.set
InfoSetStep(h, cs, t) ==
    [caches |-> [cs EXCEPT !["dataset"] =
                     CacheSet(@, DatasetCacheKey(h), h.info, <<>>, t, t).cache],
     handler |-> [h EXCEPT !.pc = "read"]]

\* the reader call of a handler that missed its cache
PlanOf(h) ==
    CASE h.req.endpoint = "data" ->
             PlanData(h.req.key, h.path, h.mode, h.req.args, h.info)
      [] h.req.endpoint = "preview" ->
             Return([method |-> "get_preview",
                     kwargs |-> <<"display_dims_param", "fixed_indices_param",
                                  "mode", "max_size", "include_stats", "detail">>,
                     args |-> [key |-> h.req.key, path |-> h.path,
                               display_dims_param |-> h.req.args.display_dims,
                               fixed_indices_param |-> h.req.args.fixed_indices,
                               mode |-> h.mode,
                               max_size |-> PreviewMaxSize(h.req.args),
                               include_stats |-> PreviewIncludeStats(h.req.args).val,
                               detail |-> ParsePreviewDetail(h.req.args.detail).val],
                     fields |-> <<>>])
      [] h.req.endpoint = "children" ->
             Return([method |-> "get_children", kwargs |-> <<>>,
                     args |-> [key |-> h.req.key, path |-> h.path],
                     fields |-> <<>>])
      [] h.req.endpoint = "meta" ->
             Return([method |-> "get_metadata", kwargs |-> <<>>,
                     args |-> [key |-> h.req.key, path |-> h.path],
                     fields |-> <<>>])

\* the except clauses of the handler
ExceptOf(h, exc) ==
    IF exc.type = "return" THEN ErrorResponse(400, exc.msg)
    ELSE IF h.req.endpoint \in {"data", "preview"} THEN DataExcept(exc)
    ELSE TreeExcept(exc)

\* the number of scalar elements of what was read from a dataset of the
\* shape; the empty list has none
RECURSIVE ElementCount(_, _, _)
ElementCount(data, shape, d) ==
    IF data.indexer = <<>> THEN 0
    ELSE IF d > Len(data.indexer) THEN 1
    ELSE (IF data.indexer[d].kind = "slice"
          THEN SliceLen(data.indexer[d], shape[d]) ELSE 1)
             * ElementCount(data, shape, d + 1)

\* get_data, line: len(line['data']) if isinstance(line.get('data'), list)
\* else output_points; a line is a list of its elements, and the reply of the
\* reader double holds no list
ReturnedPoints(plan, result, shape) ==
    IF "data" \in DOMAIN result THEN ElementCount(result.data, shape, 1)
    ELSE IF plan.fields.requested_points > 0
    THEN CeilDiv(plan.fields.requested_points, plan.fields.line_step) ELSE 0

\* the fields of the response_payload that depend on the mode
ModeFields(h, plan, result) ==
    IF plan.fields.mode = "line"
    THEN [mode |-> "line",
          quality_requested |-> plan.fields.quality_requested,
          quality_applied |-> plan.fields.quality_applied,
          line_offset |-> plan.fields.line_offset,
          line_limit |-> plan.fields.line_limit,
          requested_points |-> plan.fields.requested_points,
          returned_points |-> ReturnedPoints(plan, result, h.info.shape),
          line_step |-> plan.fields.line_step]
    ELSE plan.fields

\* what the handler stores in its cache and what it answers, given what the
\* reader returned
PayloadOf(h, plan, result) ==
    IF h.req.endpoint = "data"
    THEN [success |-> TRUE, key |-> h.req.key, path |-> h.path,
          result |-> result,
          source_shape |-> h.info.shape, source_ndim |-> h.info.ndim,
          display_dims |-> plan.args.display_dims,
          fixed_indices |-> plan.args.fixed_indices,
          fields |-> ModeFields(h, plan, result),
          cached |-> FALSE, cache_version |-> h.cache_version]
    ELSE result

BodyOf(h) ==
    CASE h.req.endpoint = "data" -> h.payload
      [] h.req.endpoint = "preview" ->
             [preview |-> h.payload, success |-> TRUE, cached |-> FALSE,
              cache_version |-> h.cache_version]
      [] OTHER -> TreeBody(h.req.endpoint, h.req.key, h.path, h.payload, FALSE)

\* from the cache miss to the return of the reader
ReadStep(h, kind, shape, v) ==
    LET plan == PlanOf(h)
        call == Called(h, kind, plan.val.method, plan.val.args, plan.val.kwargs,
                       shape, v)
    IN  IF plan.exc # NoExc THEN Respond(h, ExceptOf(h, plan.exc))
        ELSE IF call.result.exc # NoExc
        THEN Respond(call.handler, ExceptOf(h, call.result.exc))
        ELSE [call.handler EXCEPT
                  !.pc = "store",
                  !.payload = PayloadOf(h, plan.val, call.result.val)]

\* cache.set and the 200 response; n numbers the writes of the response caches
StoreStep(h, cs, t, n) ==
    LET name == CacheOf(h.req.endpoint)
        h1 == [h EXCEPT !.wrote = n]
    IN  [caches |-> [cs EXCEPT ![name] =
                         CacheSet(@, h.cache_key, h.payload, <<>>, t, t).cache],
         handler |-> Respond(h1, [status |-> 200, body |-> BodyOf(h)])]

(***************************************************************************)
(* The inputs of the model.                                                *)
(***************************************************************************)
\* a part of display_dims that int() reads as val, and one it rejects
Dim(val) == [ok |-> TRUE, val |-> val]

BadDim == [ok |-> FALSE, val |-> 0]

\* a part "dim=idx" of fixed_indices, and one that does not parse
Fix(dim, idx) == [ok |-> TRUE, dim |-> dim, idx |-> idx]

BadFix == [ok |-> FALSE, dim |-> 0, idx |-> 0]

Word(text) == [kind |-> "word", val |-> 0, text |-> text]

\* the shapes of the dataset "/d" under /data; the last is a scalar dataset
DataShapes ==
    {<<10, 20, 30>>, <<0, 0, 5>>, <<5000, 5000>>, <<489, 1024>>, <<708, 707>>,
     <<3>>, <<>>}

DataDisplayDims ==
    {NotGiven, Given(<<Dim(1), Dim(2)>>), Given(<<Dim(-1), Dim(0)>>),
     Given(<<Dim(0), Dim(3)>>)}

DataFixedIndices ==
    {NotGiven, Given(<<Fix(0, -1)>>), Given(<<Fix(0, -11)>>), Given(<<Fix(0, 10)>>),
     Given(<<Fix(0, 7)>>), Given(<<Fix(1, 99), Fix(0, 9)>>), Given(<<Fix(-3, 2)>>),
     Given(<<Fix(3, 0)>>), Given(<<BadFix>>)}

\* /data?path=/d&mode=...
DataArgs(mode) == [NoArgs EXCEPT !.path = "/d", !.mode = mode]

DataRequest(args) == [endpoint |-> "data", key |-> FileKey, args |-> args]

\* the requests of S5 and of the variations of its selection, in matrix mode
\* with a window of one cell, and two with a window of the default size past
\* the first rows
MatrixRequests ==
    {DataRequest([DataArgs("matrix") EXCEPT
                      !.display_dims = dd, !.fixed_indices = fi,
                      !.row_limit = IntText(1), !.col_limit = IntText(1)]) :
        dd \in DataDisplayDims, fi \in DataFixedIndices}
    \cup
    {DataRequest([DataArgs("matrix") EXCEPT
                      !.fixed_indices = fi, !.row_offset = IntText(4)]) :
        fi \in {NotGiven, Given(<<Fix(0, -1)>>)}}

LineRequests ==
    {DataRequest([DataArgs("line") EXCEPT
                      !.fixed_indices = fi, !.line_dim = ld, !.line_limit = ll]) :
        fi \in {NotGiven, Given(<<Fix(0, -1)>>), Given(<<Fix(0, 7)>>)},
        ld \in {NoLineDim, Word("col"), [kind |-> "int", val |-> 1, text |-> ""]},
        ll \in {Absent, IntText(3)}}

\* the max_size parameters of the heatmap requests
MaxSizeArgs ==
    {Absent, EmptyText, BadText, IntText(0), IntText(1), IntText(488),
     IntText(489), IntText(512), IntText(707), IntText(708), IntText(1023),
     IntText(1024), IntText(1025)}

HeatmapRequests ==
    {DataRequest([DataArgs("heatmap") EXCEPT
                      !.max_size = ms, !.fixed_indices = fi]) :
        ms \in MaxSizeArgs, fi \in {NotGiven, Given(<<Fix(0, -1)>>)}}
    \cup
    {DataRequest([DataArgs(mode) EXCEPT
                      !.max_size = IntText(1024), !.include_stats = st]) :
        mode \in {" Heatmap ", "HEATMAP"}, st \in {None, " Off "}}

DataPool == MatrixRequests \cup LineRequests \cup HeatmapRequests

\* /files/a.h5/<endpoint>?...
Request(endpoint, args) == [endpoint |-> endpoint, key |-> FileKey, args |-> args]

\* the requests that two clients send at the same time or one after the other:
\* S7, a matrix window, a heatmap and a preview
RoutesPool ==
    {Request("data", [DataArgs("line") EXCEPT !.line_limit = IntText(3)]),
     Request("data", [DataArgs("matrix") EXCEPT !.etag = " v1 "]),
     Request("data", DataArgs("heatmap")),
     Request("preview", [NoArgs EXCEPT !.path = "/d"])}

\* the etag parameters: absent, empty, blank, padded and plain
ETagArgs == {None, "", "  ", " v1 ", "v2"}

\* the requests of every endpoint, with and without a path and an etag
HeadPool ==
    {Request(endpoint, [NoArgs EXCEPT !.path = path, !.etag = etag, !.mode = mode]) :
        endpoint \in {"children", "meta", "preview", "data"},
        path \in {None, "", "/", "/d", "/x"},
        etag \in ETagArgs,
        mode \in {None, "line"}}

\* the shapes of the dataset "/d" of the line windows: the 1-D dataset of
\* 5,000,000 points, one point above and at MAX_LINE_EXACT_POINTS, a short
\* one, and a 2-D dataset
LineShapes == {<<5000000>>, <<20001>>, <<20000>>, <<7>>, <<3, 20001>>}

\* line windows of every quality, with and without max_points, line_offset
\* and line_limit; the offset 8 lies beyond the end of the short dataset
LineWindowRequests ==
    {DataRequest([DataArgs("line") EXCEPT
                      !.quality = q, !.max_points = mp, !.line_offset = lo,
                      !.line_limit = ll]) :
        q \in {None, "exact", "overview", " Exact"},
        mp \in {Absent, IntText(3), IntText(5001)},
        lo \in {Absent, IntText(8)},
        ll \in {Absent, IntText(20001)}}
    \cup
    {DataRequest([DataArgs("line") EXCEPT !.line_dim = Word("col")])}

\* the shapes of the dataset "/d" of the matrix windows: above
\* MAX_MATRIX_ROWS and MAX_MATRIX_COLS on both axes, on one of them, and with
\* an empty axis
MatrixShapes == {<<3000, 3000>>, <<2001, 5>>, <<2, 4001>>, <<0, 5>>}

\* matrix windows with limits at and above MAX_MATRIX_ROWS and
\* MAX_MATRIX_COLS, with and without strides, two with an offset at or beyond
\* the end of an axis, and a heatmap
MatrixWindowRequests ==
    {DataRequest([DataArgs("matrix") EXCEPT
                      !.row_limit = rl, !.col_limit = cl, !.row_step = rs,
                      !.col_step = cs]) :
        rl \in {Absent, IntText(2000), IntText(2001), IntText(3000)},
        cl \in {Absent, IntText(2000), IntText(4001)},
        rs \in {Absent, IntText(2)},
        cs \in {Absent, IntText(3)}}
    \cup
    {DataRequest([DataArgs("matrix") EXCEPT !.row_offset = ro, !.col_offset = co]) :
        ro \in {IntText(2001), IntText(3000)}, co \in {Absent, IntText(5)}}
    \cup
    {DataRequest([DataArgs("heatmap") EXCEPT !.max_size = IntText(1024)])}

\* the requests of every endpoint for the dataset "/d", the group "/g" and
\* the absent path "/x"
NodePool ==
    {Request(endpoint, [NoArgs EXCEPT !.path = path, !.mode = mode, !.etag = etag]) :
        endpoint \in {"children", "meta", "preview", "data"},
        path \in {"/d", "/g", "/x"},
        mode \in {None, "line", "heatmap"},
        etag \in {None, "v1"}}

\* the names of the integer parameters of /data
IntParamNames ==
    {"row_offset", "row_limit", "row_step", "col_offset", "col_limit",
     "col_step", "max_size", "line_index", "line_offset", "line_limit",
     "max_points"}

\* /preview and /data requests with no path, no mode, or one parameter that
\* is not an integer, below its minimum or not a word accepted, and the same
\* requests well formed
ParamPool ==
    {Request("preview", [NoArgs EXCEPT !.path = path, !.detail = detail,
                                       !.include_stats = st, !.max_size = ms]) :
        path \in {None, "/d"}, detail \in {None, "ultra", "FAST "},
        st \in {None, "maybe"}, ms \in {Absent, BadText, IntText(0)}}
    \cup
    {Request("data", [NoArgs EXCEPT !.path = path, !.mode = mode]) :
        path \in {None, "/d"}, mode \in {None, "", "table", "line"}}
    \cup
    {Request("data", [DataArgs(mode) EXCEPT ![name] = raw]) :
        mode \in {"matrix", "heatmap", "line"}, name \in IntParamNames,
        raw \in {BadText, IntText(-1)}}
    \cup
    {Request("data", [DataArgs(mode) EXCEPT !.quality = q, !.include_stats = st]) :
        mode \in {"heatmap", "line"}, q \in {None, "best"}, st \in {None, "maybe"}}

\* one request of each endpoint, and /preview and /data with an etag too
EnvelopePool ==
    {Request("children", NoArgs),
     Request("meta", [NoArgs EXCEPT !.path = "/d"]),
     Request("preview", [NoArgs EXCEPT !.path = "/d"]),
     Request("preview", [NoArgs EXCEPT !.path = "/d", !.etag = " v1 "]),
     Request("data", [DataArgs("line") EXCEPT !.line_limit = IntText(3)]),
     Request("data", [DataArgs("line") EXCEPT !.line_limit = IntText(3),
                                              !.etag = " v1 "])}

\* /data requests that differ in mode, selection, etag and path: the dataset
\* "/d" as a matrix and as a line, with and without an etag, and the group
\* "/g", which get_dataset_info refuses
InfoPool ==
    {Request("data", DataArgs("matrix")),
     Request("data", [DataArgs("line") EXCEPT !.line_limit = IntText(3)]),
     Request("data", [DataArgs("matrix") EXCEPT !.etag = " v1 "]),
     Request("data", [DataArgs("matrix") EXCEPT !.path = "/g"]),
     Request("data", [DataArgs("line") EXCEPT !.path = "/g"])}

\* /children and /meta requests for the root, the dataset "/d" and the group
\* "/g"
TreePool ==
    {Request("children", NoArgs),
     Request("children", [NoArgs EXCEPT !.path = "/g"]),
     Request("meta", [NoArgs EXCEPT !.path = "/d"]),
     Request("meta", [NoArgs EXCEPT !.path = "/g"])}

\* /data and /preview requests that succeed while the object is there, that
\* fail in the reader, that fail for their path and that fail before the
\* cache is looked up
ErrorPool ==
    {Request("data", DataArgs("matrix")),
     Request("data", [DataArgs("line") EXCEPT !.path = "/x"]),
     Request("data", [NoArgs EXCEPT !.path = "/d"]),
     Request("preview", [NoArgs EXCEPT !.path = "/d"])}

PoolOf(name) ==
    CASE name = "data" -> DataPool
      [] name = "error" -> ErrorPool
      [] name = "tree" -> TreePool
      [] name = "info" -> InfoPool
      [] name = "envelope" -> EnvelopePool
      [] name = "routes" -> RoutesPool
      [] name = "head" -> HeadPool
      [] name = "line" -> LineWindowRequests
      [] name = "matrix" -> MatrixWindowRequests
      [] name = "node" -> NodePool
      [] name = "param" -> ParamPool

(***************************************************************************)
(* The routes served to clients.  Each client sends at most one request;   *)
(* the handlers of two clients interleave step by step, time passes and    *)
(* the stored object is replaced by uploads between the steps.             *)
(***************************************************************************)
\* the object is uploaded at most MaxVersion times
MaxVersion == 2

\* the seconds by which time.time() advances at once: to the expiry time of
\* an entry of the data cache, past it, and past the expiry time of an entry
\* of the hdf5 and dataset caches
TickSizes == {DATA_TTL, DATA_TTL + 1, HDF5_TTL + 1}

HDF5_MAX_ENTRIES == 3000

DATASET_MAX_ENTRIES == 3000

DATA_MAX_ENTRIES == 1200

\* _hdf5_cache, _dataset_cache and _data_cache as the module builds them
GlobalCaches ==
    [hdf5 |-> NewCache(HDF5_TTL, HDF5_MAX_ENTRIES),
     dataset |-> NewCache(DATASET_TTL, DATASET_MAX_ENTRIES),
     data |-> NewCache(DATA_TTL, DATA_MAX_ENTRIES)]

\* the cache variables of the single cache under test are not used
CacheUnused ==
    /\ cacheName = "data"
    /\ cache = NewCache(DefaultTTLOf(cacheName), 1)
    /\ now = 0
    /\ ticks = 0
    /\ last = NoOp
    /\ recency = <<>>
    /\ setOrder = <<>>
    /\ deadline = [k \in Keys |-> <<>>]
    /\ ThreadsIdle

\* an exchange answered: the request, the response and the history of the
\* handler; began counts the exchanges answered before the request was sent
Exchange(c, h, t) ==
    [client |-> c, req |-> h.req, resp |-> h.resp, began |-> h.began,
     missed |-> h.missed, informed |-> h.informed, looked |-> h.looked,
     answered |-> t,
     heads |-> h.heads, calls |-> h.calls, wrote |-> h.wrote,
     cache_key |-> h.cache_key, cache_version |-> h.cache_version,
     path |-> h.path, payload |-> h.payload]

DoneHandler == [IdleHandler EXCEPT !.pc = "done"]

\* the step of client c leaves its handler as h and the caches as cs
Advance(c, h, cs) ==
    /\ caches' = cs
    /\ IF h.pc = "done"
       THEN /\ clients' = [clients EXCEPT ![c] = DoneHandler]
            /\ served' = Append(served, Exchange(c, h, now))
       ELSE /\ clients' = [clients EXCEPT ![c] = h]
            /\ served' = served

\* a client sends a request
Issue(c) ==
    /\ c \in active
    /\ clients[c].pc = "idle"
    /\ \E req \in PoolOf(pool) :
           clients' = [clients EXCEPT ![c] =
                          [IdleHandler EXCEPT !.pc = "begin", !.req = req,
                                              !.began = Len(served)]]
    /\ UNCHANGED <<readerKind, fileShape, version, pool, active, caches, served,
                   writes, sel, bucket>>
    /\ UNCHANGED <<cacheVars, threadVars>>

Begin(c) ==
    /\ clients[c].pc = "begin"
    /\ LET r == BeginStep(clients[c], caches, now, version)
       IN  Advance(c, r.handler, r.caches)
    /\ UNCHANGED <<readerKind, fileShape, version, pool, active, writes, sel,
                   bucket>>
    /\ UNCHANGED <<cacheVars, threadVars>>

Info(c) ==
    /\ clients[c].pc = "info"
    /\ LET r == InfoStep(clients[c], caches, now, readerKind, fileShape, version)
       IN  Advance(c, r.handler, r.caches)
    /\ UNCHANGED <<readerKind, fileShape, version, pool, active, writes, sel,
                   bucket>>
    /\ UNCHANGED <<cacheVars, threadVars>>

InfoSet(c) ==
    /\ clients[c].pc = "infoset"
    /\ LET r == InfoSetStep(clients[c], caches, now)
       IN  Advance(c, r.handler, r.caches)
    /\ UNCHANGED <<readerKind, fileShape, version, pool, active, writes, sel,
                   bucket>>
    /\ UNCHANGED <<cacheVars, threadVars>>

Read(c) ==
    /\ clients[c].pc = "read"
    /\ Advance(c, ReadStep(clients[c], readerKind, fileShape, version), caches)
    /\ UNCHANGED <<readerKind, fileShape, version, pool, active, writes, sel,
                   bucket>>
    /\ UNCHANGED <<cacheVars, threadVars>>

Store(c) ==
    /\ clients[c].pc = "store"
    /\ LET r == StoreStep(clients[c], caches, now, writes + 1)
       IN  Advance(c, r.handler, r.caches)
    /\ writes' = writes + 1
    /\ UNCHANGED <<readerKind, fileShape, version, pool, active, sel, bucket>>
    /\ UNCHANGED <<cacheVars, threadVars>>

\* time passes
TickRoutes ==
    \E d \in TickSizes :
        /\ ticks < MaxTicks
        /\ ticks' = ticks + 1
        /\ now' = now + d
        /\ UNCHANGED <<cache, cacheName, last, recency, setOrder, deadline>>
        /\ UNCHANGED <<threadVars, routeVars>>

\* the object is uploaded again
Upload ==
    /\ version < MaxVersion
    /\ version' = version + 1
    /\ UNCHANGED <<readerKind, fileShape, pool, active, caches, clients, served,
                   writes, sel, bucket>>
    /\ UNCHANGED <<cacheVars, threadVars>>

NextRoutes ==
    \/ TickRoutes
    \/ Upload
    \/ \E c \in Clients :
        \/ Issue(c)
        \/ Begin(c)
        \/ Info(c)
        \/ InfoSet(c)
        \/ Read(c)
        \/ Store(c)

ReaderKinds == {"HDF5Reader", "Mock"}

\* one client sends one /data request for the dataset "/d"
InitData ==
    /\ readerKind \in ReaderKinds
    /\ fileShape \in DataShapes
    /\ version = 1
    /\ pool = "data"
    /\ active = {"c1"}
    /\ caches = GlobalCaches
    /\ clients = [c \in Clients |-> IdleHandler]
    /\ served = <<>>
    /\ writes = 0
    /\ sel = <<>>
    /\ bucket = {}
    /\ CacheUnused

SpecData == InitData /\ [][NextRoutes]_vars

(***************************************************************************)
(* _normalize_selection applied to a shape and two parameters.             *)
(***************************************************************************)
\* a dataset has at most MaxDims dimensions and a parameter at most MaxParts
\* parts
MaxDims == 3

MaxParts == 2

\* the sequences over S of length 0 to n
SeqsUpTo(S, n) == UNION {[1..k -> S] : k \in 0..n}

\* the sizes of an axis: empty or not
AxisSizes == {0, 3}

SelShapes == SeqsUpTo(AxisSizes, MaxDims)

SelDims == {Dim(-1), Dim(0), Dim(1), BadDim}

SelDisplayDims ==
    {NotGiven, Given(<<Dim(0), Dim(1), Dim(2)>>)}
        \cup {Given(parts) : parts \in SeqsUpTo(SelDims, 2)}

SelFixes ==
    {Fix(dim, idx) : dim \in {-1, 0}, idx \in {-4, -1, 2, 3}}
        \cup {Fix(3, 0), BadFix}

SelFixedIndices ==
    {NotGiven} \cup {Given(parts) : parts \in SeqsUpTo(SelFixes, MaxParts)}

NoSelection == [display_dims |-> <<>>, fixed_indices |-> <<>>]

InitSelect ==
    /\ \E sh \in SelShapes, dd \in SelDisplayDims, fi \in SelFixedIndices :
           sel = [shape |-> sh, display_dims_param |-> dd,
                  fixed_indices_param |-> fi, done |-> FALSE, err |-> "",
                  val |-> NoSelection]
    /\ readerKind = ""
    /\ fileShape = <<>>
    /\ version = 0
    /\ pool = ""
    /\ active = {}
    /\ caches = <<>>
    /\ clients = <<>>
    /\ served = <<>>
    /\ writes = 0
    /\ bucket = {}
    /\ CacheUnused

\* _normalize_selection is called
Normalize ==
    /\ ~sel.done
    /\ LET r == NormalizeSelection(sel.shape, sel.display_dims_param,
                                   sel.fixed_indices_param)
       IN  sel' = [sel EXCEPT !.done = TRUE, !.err = r.err,
                              !.val = IF r.err = "" THEN r.val ELSE NoSelection]
    /\ UNCHANGED <<readerKind, fileShape, version, pool, active, caches, clients,
                   served, writes, bucket>>
    /\ UNCHANGED <<cacheVars, threadVars>>

NextSelect == Normalize

SpecSelect == InitSelect /\ [][NextSelect]_vars

\* the axes of a shape
Axes(sh) == 0..(Len(sh) - 1)

\* the display dims of a normalized selection are distinct axes, its
\* fixed_indices has one entry for every other axis and for no display dim
SelectionCoversAxes(sh, selection) ==
    LET dd == selection.display_dims
        fixed == selection.fixed_indices
    IN  /\ \A i, j \in 1..Len(dd) : dd[i] = dd[j] => i = j
        /\ \A i \in 1..Len(dd) : dd[i] \in Axes(sh)
        /\ \A i, j \in 1..Len(fixed) : fixed[i].key = fixed[j].key => i = j
        /\ KeysOf(fixed) \cap SeqRange(dd) = {}
        /\ KeysOf(fixed) \cup SeqRange(dd) = Axes(sh)

\* C8: whenever _normalize_selection accepts its input, the display dims are
\* distinct and each in [0, ndim), every fixed axis has an index in
\* [0, shape[axis]), and the display dims and the keys of fixed_indices are
\* disjoint and together make up {0, ..., ndim - 1}.
C8_EveryIndexInRange ==
    (sel.done /\ sel.err = "") =>
        /\ SelectionCoversAxes(sel.shape, sel.val)
        /\ \A i \in 1..Len(sel.val.fixed_indices) :
               LET e == sel.val.fixed_indices[i]
               IN  0 <= e.value /\ e.value < SizeOf(sel.shape, e.key)

\* C8 as amended: whenever _normalize_selection accepts its input, the display
\* dims are distinct and each in [0, ndim), the display dims and the keys of
\* fixed_indices are disjoint and together make up {0, ..., ndim - 1}, and
\* every fixed axis of positive size has an index in [0, shape[axis]) while
\* every fixed axis of size 0 has the index 0.
C8_NormalizedSelection ==
    (sel.done /\ sel.err = "") =>
        /\ SelectionCoversAxes(sel.shape, sel.val)
        /\ \A i \in 1..Len(sel.val.fixed_indices) :
               LET e == sel.val.fixed_indices[i]
                   size == SizeOf(sel.shape, e.key)
               IN  IF size > 0 THEN 0 <= e.value /\ e.value < size
                   ELSE e.value = 0

\* a selection is accepted that fixes an empty axis, a given negative index
\* and a defaulted axis beside two display dims given in reverse order
C8_Witness ==
    /\ sel.done
    /\ sel.err = ""
    /\ sel.shape = <<3, 3, 0>>
    /\ sel.display_dims_param = Given(<<Dim(1), Dim(0)>>)
    /\ sel.fixed_indices_param = Given(<<Fix(-1, 2)>>)
    /\ sel.val = [display_dims |-> <<1, 0>>,
                  fixed_indices |-> <<[key |-> 2, value |-> 0]>>]

(***************************************************************************)
(* /data answered for one request, checked under SpecData.                 *)
(***************************************************************************)
\* the reader calls of an exchange that read from the array of the dataset
ArrayReads(e) ==
    SelectSeq(e.calls, LAMBDA call :
        call.method \in {"get_matrix", "get_line", "get_heatmap", "get_preview"})

\* the display dims and the entries of fixed_indices that the parameters of a
\* /data request name for the dataset, when both parameters parse; of two
\* entries for one axis the later counts
SelectionAsked(e) ==
    LET dd == ParseDisplayDims(e.req.args.display_dims, Len(fileShape))
        fi == ParseFixedIndices(e.req.args.fixed_indices, Len(fileShape))
    IN  [parsed |-> dd.err = "" /\ fi.err = "",
         display_dims |-> dd.val, fixed_indices |-> fi.val]

\* the entries asked for axes that are not display dims
NonDisplayAsked(e) ==
    LET asked == SelectionAsked(e)
    IN  SelectSeq(asked.fixed_indices,
                  LAMBDA entry : ~InDisplay(entry.key, asked.display_dims))

\* idx read against an axis of size n: n + idx when negative
FromEnd(idx, n) == IF idx < 0 THEN n + idx ELSE idx

InAxis(idx, n) == 0 <= FromEnd(idx, n) /\ FromEnd(idx, n) < n

OutOfRangeMessages ==
    {"fixed_indices index out of range for dim " \o ToString(d) : d \in 0..MaxDims}

\* the request was refused as an invalid selection before any array read
RejectedSelection(e) ==
    /\ e.resp.status = 400
    /\ e.resp.body.error \in OutOfRangeMessages
    /\ ArrayReads(e) = <<>>

\* the exchanges in which get_data reached _normalize_selection with
\* parameters that parse
Selecting ==
    {i \in 1..Len(served) :
        /\ served[i].req.endpoint = "data"
        /\ served[i].informed
        /\ SelectionAsked(served[i]).parsed}

\* C9: a negative index idx on a non-display axis of size n reaches the
\* reader as n + idx; an index on a non-display axis that is outside [0, n)
\* after that makes the request fail with 400 as an invalid selection,
\* without any array read; the entries for display dims are dropped without
\* being checked, so they neither fail the request nor reach the reader of a
\* matrix or a heatmap.
C9_OutOfRangeRejected ==
    \A i \in Selecting :
        LET e == served[i]
            entries == NonDisplayAsked(e)
            size(entry) == SizeOf(fileShape, entry.key)
        IN  IF \E k \in 1..Len(entries) : ~InAxis(entries[k].value, size(entries[k]))
            THEN RejectedSelection(e)
            ELSE /\ ~(e.resp.status = 400 /\ e.resp.body.error \in OutOfRangeMessages)
                 /\ \A r \in 1..Len(ArrayReads(e)) :
                        LET passed == ArrayReads(e)[r].args
                        IN  /\ \A k \in 1..Len(entries) :
                                   /\ Has(passed.fixed_indices, entries[k].key)
                                   /\ EntryOf(passed.fixed_indices, entries[k].key).value
                                          = FromEnd(entries[k].value, size(entries[k]))
                            /\ ArrayReads(e)[r].method \in {"get_matrix", "get_heatmap"}
                                   => KeysOf(passed.fixed_indices)
                                          \cap SeqRange(passed.display_dims) = {}

\* C9 as amended: on a non-display axis of size n > 0 a negative index idx
\* reaches the reader as n + idx, and an index that is outside [0, n) after
\* that makes the request fail with 400 as an invalid selection, without any
\* array read; on a non-display axis of size 0 every index is replaced by 0
\* and the request is not refused for it; the entries for display dims are
\* dropped without being checked.
C9_NonEmptyAxisRejected ==
    \A i \in Selecting :
        LET e == served[i]
            entries == NonDisplayAsked(e)
            size(entry) == SizeOf(fileShape, entry.key)
            reaches(entry) == IF size(entry) > 0
                              THEN FromEnd(entry.value, size(entry)) ELSE 0
        IN  IF \E k \in 1..Len(entries) :
                   size(entries[k]) > 0 /\ ~InAxis(entries[k].value, size(entries[k]))
            THEN RejectedSelection(e)
            ELSE /\ ~(e.resp.status = 400 /\ e.resp.body.error \in OutOfRangeMessages)
                 /\ \A r \in 1..Len(ArrayReads(e)) :
                        LET passed == ArrayReads(e)[r].args
                        IN  /\ \A k \in 1..Len(entries) :
                                   /\ Has(passed.fixed_indices, entries[k].key)
                                   /\ EntryOf(passed.fixed_indices, entries[k].key).value
                                          = reaches(entries[k])
                            /\ ArrayReads(e)[r].method \in {"get_matrix", "get_heatmap"}
                                   => KeysOf(passed.fixed_indices)
                                          \cap SeqRange(passed.display_dims) = {}

\* S5 is answered: shape [10, 20, 30], display_dims=1,2, fixed_indices=0=-1 and
\* a window of one cell reach get_matrix as display dims (1, 2) and {0: 9}
C9_Witness ==
    \E i \in Selecting :
        /\ fileShape = <<10, 20, 30>>
        /\ served[i].req.args.display_dims = Given(<<Dim(1), Dim(2)>>)
        /\ served[i].req.args.fixed_indices = Given(<<Fix(0, -1)>>)
        /\ served[i].resp.status = 200
        /\ Len(ArrayReads(served[i])) = 1
        /\ ArrayReads(served[i])[1].method = "get_matrix"
        /\ ArrayReads(served[i])[1].args.display_dims = <<1, 2>>
        /\ ArrayReads(served[i])[1].args.fixed_indices = <<[key |-> 0, value |-> 9]>>

\* the exchanges that answered a heatmap of /data with 200
HeatmapAnswers ==
    {i \in 1..Len(served) :
        /\ served[i].req.endpoint = "data"
        /\ served[i].resp.status = 200
        /\ served[i].resp.body.fields.mode = "heatmap"}

\* C10: in every successful heatmap response of /data the effective size is
\* at most the requested one, min(rows, effective) * min(cols, effective) is at
\* most MAX_JSON_ELEMENTS, max_size_clamped tells whether the two sizes
\* differ, and the handler that read the heatmap passed the effective size to
\* the reader.
C10_HeatmapSize ==
    \A i \in HeatmapAnswers :
        LET body == served[i].resp.body
            rows == SizeOf(body.source_shape, body.display_dims[1])
            cols == SizeOf(body.source_shape, body.display_dims[2])
            effective == body.fields.effective_max_size
            requested == body.fields.requested_max_size
        IN  /\ effective <= requested
            /\ Min(rows, effective) * Min(cols, effective) <= MAX_JSON_ELEMENTS
            /\ body.fields.max_size_clamped <=> effective # requested
            /\ served[i].missed =>
                   /\ Len(ArrayReads(served[i])) = 1
                   /\ ArrayReads(served[i])[1].method = "get_heatmap"
                   /\ ArrayReads(served[i])[1].args.max_size = effective

\* a 5000 x 5000 dataset asked as a heatmap of max_size 1024 is answered with
\* the effective size 707, clamped, which get_heatmap was called with
C10_Witness ==
    \E i \in HeatmapAnswers :
        /\ served[i].resp.body.source_shape = <<5000, 5000>>
        /\ served[i].resp.body.fields.requested_max_size = 1024
        /\ served[i].resp.body.fields.effective_max_size = 707
        /\ served[i].resp.body.fields.max_size_clamped
        /\ ArrayReads(served[i])[1].args.max_size = 707

\* the shape of the dataset "/d" where it does not matter
PlainShape == <<4, 6>>

\* two clients send one request each, at the same time or one after the other
InitRoutes ==
    /\ readerKind \in ReaderKinds
    /\ fileShape = PlainShape
    /\ version = 1
    /\ pool = "routes"
    /\ active = Clients
    /\ caches = GlobalCaches
    /\ clients = [c \in Clients |-> IdleHandler]
    /\ served = <<>>
    /\ writes = 0
    /\ sel = <<>>
    /\ bucket = {}
    /\ CacheUnused

SpecRoutes == InitRoutes /\ [][NextRoutes]_vars

\* one client asks an endpoint for a node of the file, with the reader of
\* the application or with a reader double that raises
InitNode ==
    /\ readerKind \in {"HDF5Reader", "MockNotFound", "MockNotDataset"}
    /\ fileShape = PlainShape
    /\ version = 1
    /\ pool = "node"
    /\ active = {"c1"}
    /\ caches = GlobalCaches
    /\ clients = [c \in Clients |-> IdleHandler]
    /\ served = <<>>
    /\ writes = 0
    /\ sel = <<>>
    /\ bucket = {}
    /\ CacheUnused

SpecNode == InitNode /\ [][NextRoutes]_vars

\* one client sends a request of which a parameter may be missing or
\* malformed
InitParam ==
    /\ readerKind \in ReaderKinds
    /\ fileShape = PlainShape
    /\ version = 1
    /\ pool = "param"
    /\ active = {"c1"}
    /\ caches = GlobalCaches
    /\ clients = [c \in Clients |-> IdleHandler]
    /\ served = <<>>
    /\ writes = 0
    /\ sel = <<>>
    /\ bucket = {}
    /\ CacheUnused

SpecParam == InitParam /\ [][NextRoutes]_vars

\* one client asks for a line window or for a matrix window of a dataset
InitWindow ==
    /\ readerKind \in ReaderKinds
    /\ \/ pool = "line" /\ fileShape \in LineShapes
       \/ pool = "matrix" /\ fileShape \in MatrixShapes
    /\ version = 1
    /\ active = {"c1"}
    /\ caches = GlobalCaches
    /\ clients = [c \in Clients |-> IdleHandler]
    /\ served = <<>>
    /\ writes = 0
    /\ sel = <<>>
    /\ bucket = {}
    /\ CacheUnused

SpecWindow == InitWindow /\ [][NextRoutes]_vars

\* one client sends one request to one of the four endpoints; the object may
\* not exist yet
InitHead ==
    /\ readerKind \in ReaderKinds
    /\ fileShape = PlainShape
    /\ version \in {0, 1}
    /\ pool = "head"
    /\ active = {"c1"}
    /\ caches = GlobalCaches
    /\ clients = [c \in Clients |-> IdleHandler]
    /\ served = <<>>
    /\ writes = 0
    /\ sel = <<>>
    /\ bucket = {}
    /\ CacheUnused

SpecHead == InitHead /\ [][NextRoutes]_vars

(***************************************************************************)
(* Two requests for the same window, checked under SpecRoutes.             *)
(***************************************************************************)
\* the pairs of exchanges of /data or /preview that answered the same
\* request, in the order they were answered
SameRequestPairs ==
    {p \in (1..Len(served)) \X (1..Len(served)) :
        /\ p[1] < p[2]
        /\ served[p[1]].req = served[p[2]].req
        /\ served[p[1]].req.endpoint \in {"data", "preview"}}

\* the later request was sent before the earlier one was answered
Concurrent(p) == served[p[2]].began < p[1]

\* what the reader returned to the array read of an exchange
ReadOf(e) ==
    LET call == ArrayReads(e)[1]
    IN  ReaderCall(readerKind, call.method, call.args, call.kwargs, fileShape,
                   call.version).val

\* the exchange read the array once and answered 200, not from the cache, with
\* what it read
AnsweredFromReader(e) ==
    /\ Len(ArrayReads(e)) = 1
    /\ e.resp.status = 200
    /\ e.resp.body.cached = FALSE
    /\ IF e.req.endpoint = "data"
       THEN e.resp.body.result = ReadOf(e)
       ELSE e.resp.body.preview = ReadOf(e)

\* the entries stored under a key
StoredUnder(entries, key) == {k \in 1..Len(entries) : entries[k].key = key}

\* C5: when two identical /data or /preview requests run concurrently and
\* both miss the cache, both invoke the reader, both respond 200 with
\* cached=false and what they read, and afterwards the cache holds exactly one
\* entry for the key, with the payload of the later of the two cache writes.
C5_SecondWriteWins ==
    \A p \in SameRequestPairs :
        LET a == served[p[1]]
            b == served[p[2]]
            entries == caches[CacheOf(a.req.endpoint)].entries
        IN  (Concurrent(p) /\ a.missed /\ b.missed) =>
                /\ AnsweredFromReader(a)
                /\ AnsweredFromReader(b)
                /\ a.cache_key = b.cache_key
                /\ Cardinality(StoredUnder(entries, a.cache_key)) = 1
                /\ EntryOf(entries, a.cache_key).value
                       = IF a.wrote > b.wrote THEN a.payload ELSE b.payload

\* the later request was sent after the earlier one was answered, and looked
\* the cache up no later than the TTL after the earlier one stored its payload
WithinTTL(p) ==
    /\ served[p[2]].began >= p[1]
    /\ served[p[2]].looked
           <= served[p[1]].answered + DefaultTTLOf(CacheOf(served[p[1]].req.endpoint))

\* C6: of two identical /data or /preview requests sent one after the other
\* within the cache TTL, the first responds with cached=false, the second
\* with cached=true, both carry the same cache_version, the two bodies are
\* equal but for the cached flag, and the reader read the array once in total,
\* the second request calling no reader method at all.
C6_Idempotent ==
    \A p \in SameRequestPairs :
        LET a == served[p[1]]
            b == served[p[2]]
        IN  WithinTTL(p) =>
                /\ a.resp.status = 200
                /\ b.resp.status = 200
                /\ a.resp.body.cached = FALSE
                /\ b.resp.body.cached = TRUE
                /\ a.resp.body.cache_version = b.resp.body.cache_version
                /\ [b.resp.body EXCEPT !.cached = FALSE] = a.resp.body
                /\ Len(ArrayReads(a)) = 1
                /\ b.calls = <<>>

(***************************************************************************)
(* HEAD and the cache version, checked under SpecHead.                     *)
(***************************************************************************)
\* the etag that the HEAD of an exchange returned
HeadETag(e) == GetObjectMetadata(e.req.key, e.heads[1])

\* the exchange sent one HEAD and, if the object was there, looked its cache
\* up under a key made with the etag returned, under which it stored what it
\* read
KeyedByHeadETag(e) ==
    /\ Len(e.heads) = 1
    /\ IF HeadETag(e).exc # NoExc
       THEN e.resp.status = 500 /\ e.cache_key = <<>> /\ e.calls = <<>>
       ELSE /\ e.cache_key = MakeCacheKey(<<e.req.endpoint, e.req.key,
                                            HeadETag(e).val, e.path>>)
            /\ e.wrote > 0 =>
                   /\ Has(caches["hdf5"].entries, e.cache_key)
                   /\ EntryOf(caches["hdf5"].entries, e.cache_key).value = e.payload

\* the etag parameter is not given or blank
BlankETag(etag) == etag = None \/ Strip(etag) = ""

\* C7: /children and /meta send a HEAD on every request and key their cache
\* entry by the etag returned; /preview and /data never send a HEAD, and the
\* cache_version of their response is "ttl" when no etag parameter or a blank
\* one is given and the etag parameter as given otherwise.
C7_HeadOnEveryTreeRequest ==
    \A i \in 1..Len(served) :
        LET e == served[i]
        IN  IF e.req.endpoint \in {"children", "meta"}
            THEN KeyedByHeadETag(e)
            ELSE /\ e.heads = <<>>
                 /\ e.resp.status = 200 =>
                        e.resp.body.cache_version
                            = IF BlankETag(e.req.args.etag) THEN "ttl"
                              ELSE e.req.args.etag

\* C7 as amended: /children sends a HEAD on every request and /meta on every
\* request that names a path, and they key their cache entry by the etag
\* returned; /meta without a path answers 400 without a HEAD; /preview and
\* /data never send a HEAD, and the cache_version of their 200 response is
\* "ttl" when no etag parameter or a blank one is given and the etag parameter
\* stripped of surrounding white space otherwise.
C7_HeadIffETagKeyed ==
    \A i \in 1..Len(served) :
        LET e == served[i]
        IN  CASE e.req.endpoint = "children" -> KeyedByHeadETag(e)
              [] e.req.endpoint = "meta" ->
                     IF Falsy(e.req.args.path)
                     THEN e.heads = <<>> /\ e.resp.status = 400 /\ e.calls = <<>>
                     ELSE KeyedByHeadETag(e)
              [] OTHER ->
                     /\ e.heads = <<>>
                     /\ e.resp.status = 200 =>
                            e.resp.body.cache_version
                                = IF BlankETag(e.req.args.etag) THEN "ttl"
                                  ELSE Strip(e.req.args.etag)

\* /meta for "/d" sent one HEAD, missed under the key made with the etag "v1"
\* of the object, and stored the metadata it read under that key
C7_Witness ==
    \E i \in 1..Len(served) :
        /\ served[i].req.endpoint = "meta"
        /\ served[i].req.args.path = "/d"
        /\ served[i].heads = <<1>>
        /\ served[i].resp.status = 200
        /\ served[i].cache_key = <<"meta", FileKey, "v1", "/d">>
        /\ served[i].wrote = 1
        /\ Has(caches["hdf5"].entries, served[i].cache_key)

(***************************************************************************)
(* Line windows of /data, checked under SpecWindow.                        *)
(***************************************************************************)
\* the exchanges of /data answered 200 in line mode
LineAnswers ==
    {i \in 1..Len(served) :
        /\ served[i].req.endpoint = "data"
        /\ served[i].resp.status = 200
        /\ served[i].resp.body.fields.mode = "line"}

\* the max_points that a request answered 200 asked for, MAX_LINE_POINTS when
\* it gave none
MaxPointsAsked(e) ==
    IF Truthy(e.req.args.max_points) THEN e.req.args.max_points.val
    ELSE MAX_LINE_POINTS

\* C11: in every successful line response of /data, if quality_applied is
\* "exact" then line_step is 1 and requested_points is at most
\* MAX_LINE_EXACT_POINTS; if it is "overview" then returned_points is at most
\* the max_points asked and at most MAX_LINE_POINTS.
C11_LineQuality ==
    \A i \in LineAnswers :
        LET f == served[i].resp.body.fields
        IN  /\ f.quality_applied \in {"exact", "overview"}
            /\ f.quality_applied = "exact" =>
                   /\ f.line_step = 1
                   /\ f.requested_points <= MAX_LINE_EXACT_POINTS
            /\ f.quality_applied = "overview" =>
                   /\ f.returned_points <= MaxPointsAsked(served[i])
                   /\ f.returned_points <= MAX_LINE_POINTS

\* the line of 20001 points asked with max_points=5001 is read from the file
\* as an overview of every fifth point
C11_Witness ==
    \E i \in LineAnswers :
        /\ readerKind = "HDF5Reader"
        /\ served[i].resp.body.source_shape = <<20001>>
        /\ served[i].req.args.max_points = IntText(5001)
        /\ served[i].resp.body.fields.quality_applied = "overview"
        /\ served[i].resp.body.fields.line_step = 5
        /\ served[i].resp.body.fields.returned_points = 4001
        /\ Len(ArrayReads(served[i])) = 1

\* the length of the line that a line request asks for: the only axis of a
\* 1-D dataset, else a row of the last two axes, or a column of them with
\* line_dim=col
LineLengthAsked(e) ==
    LET shape == fileShape
        ndim == Len(shape)
    IN  IF ndim = 1 THEN shape[1]
        ELSE IF e.req.args.line_dim = Word("col") THEN shape[ndim - 1]
        ELSE shape[ndim]

\* the window asked: line_limit, by default the line from line_offset on,
\* clamped to the line
WindowAsked(e) ==
    LET offset == IF e.req.args.line_offset.kind = "int"
                  THEN e.req.args.line_offset.val ELSE 0
        rest == Max(0, LineLengthAsked(e) - offset)
    IN  IF Truthy(e.req.args.line_limit)
        THEN Min(e.req.args.line_limit.val, rest) ELSE rest

\* C12: in line mode with quality=auto, the default, the quality applied is
\* exact when the window asked (line_limit, by default length - offset, clamped
\* to the line) is at most MAX_LINE_EXACT_POINTS and overview otherwise; under
\* overview line_step is max(1, ceil(requested_points / max_points)) with
\* max_points capped at MAX_LINE_POINTS; a 1-D dataset of 5,000,000 points
\* asked with no other parameter yields overview, line_limit 5,000,000 and
\* line_step 1000.
C12_AutoQuality ==
    \A i \in LineAnswers :
        LET e == served[i]
            f == e.resp.body.fields
        IN  /\ f.line_limit = WindowAsked(e)
            /\ f.requested_points = WindowAsked(e)
            /\ f.quality_requested = "auto" =>
                   f.quality_applied
                       = IF WindowAsked(e) <= MAX_LINE_EXACT_POINTS
                         THEN "exact" ELSE "overview"
            /\ f.quality_applied = "overview" =>
                   f.line_step
                       = Max(1, CeilDiv(f.requested_points,
                                        Min(MaxPointsAsked(e), MAX_LINE_POINTS)))
            /\ (e.req = DataRequest(DataArgs("line"))
                    /\ e.resp.body.source_shape = <<5000000>>) =>
                   /\ f.quality_applied = "overview"
                   /\ f.line_limit = 5000000
                   /\ f.line_step = 1000

\* the 1-D dataset of 5,000,000 points asked as a line with no other
\* parameter is read from the file as an overview of every 1000th point
C12_Witness ==
    \E i \in LineAnswers :
        /\ readerKind = "HDF5Reader"
        /\ served[i].req = DataRequest(DataArgs("line"))
        /\ served[i].resp.body.source_shape = <<5000000>>
        /\ served[i].resp.body.fields.quality_requested = "auto"
        /\ served[i].resp.body.fields.quality_applied = "overview"
        /\ served[i].resp.body.fields.line_step = 1000
        /\ served[i].resp.body.fields.returned_points = 5000
        /\ ArrayReads(served[i])[1].args.line_step = 1000

\* the message of the rejection of an exact window
ExactWindowMessage ==
    "Exact line window exceeds " \o ToString(MAX_LINE_EXACT_POINTS)
        \o " points. Reduce line_limit/zoom window or use quality=overview."

\* the value of an integer parameter of a request, or its default
IntAsked(raw, default) == IF raw.kind = "int" THEN raw.val ELSE default

\* the rows and columns of the matrix window asked of the last two axes of
\* the dataset: the limits clamped to what lies beyond the offsets
MatrixLimitsAsked(e) ==
    LET ndim == Len(fileShape)
        rows == fileShape[ndim - 1]
        cols == fileShape[ndim]
    IN  <<Min(IntAsked(e.req.args.row_limit, DEFAULT_ROW_LIMIT),
              Max(0, rows - IntAsked(e.req.args.row_offset, 0))),
          Min(IntAsked(e.req.args.col_limit, DEFAULT_COL_LIMIT),
              Max(0, cols - IntAsked(e.req.args.col_offset, 0)))>>

\* the rows and columns of the output of the matrix window asked, after stride
MatrixOutputAsked(e) ==
    <<CeilDiv(MatrixLimitsAsked(e)[1], IntAsked(e.req.args.row_step, 1)),
      CeilDiv(MatrixLimitsAsked(e)[2], IntAsked(e.req.args.col_step, 1))>>

\* the message of the rejection of a matrix window by MAX_MATRIX_ROWS and
\* MAX_MATRIX_COLS
MatrixLimitsMessage ==
    "Matrix limits exceed " \o ToString(MAX_MATRIX_ROWS) \o "x"
        \o ToString(MAX_MATRIX_COLS)

\* the message of the rejection of a count of elements by MAX_JSON_ELEMENTS
TooLargeMessage(count) ==
    "Selection too large for JSON (" \o ToString(count) \o " > "
        \o ToString(MAX_JSON_ELEMENTS) \o " elements)"

\* the exchange of /data was answered 400 with the message of an element cap
CapRejected(e) ==
    /\ e.req.endpoint = "data"
    /\ e.resp.status = 400
    /\ \/ e.resp.body.error = ExactWindowMessage
       \/ e.resp.body.error = MatrixLimitsMessage
       \/ /\ e.req.args.mode = "matrix"
          /\ Len(fileShape) >= 2
          /\ e.resp.body.error
                 = TooLargeMessage(MatrixOutputAsked(e)[1] * MatrixOutputAsked(e)[2])

\* C13: a line request with quality=exact whose window exceeds
\* MAX_LINE_EXACT_POINTS is answered 400 with the message "Exact line window
\* exceeds ..."; every rejection of /data by an element cap happens before
\* any array read, get_matrix, get_heatmap and get_line not being called, and
\* nothing is written to the cache of data responses.
C13_CapBeforeRead ==
    \A i \in 1..Len(served) :
        LET e == served[i]
        IN  /\ (/\ e.req.args.mode = "line"
                /\ ~Falsy(e.req.args.quality)
                /\ StripLower(e.req.args.quality) = "exact"
                /\ WindowAsked(e) > MAX_LINE_EXACT_POINTS) =>
                   /\ e.resp.status = 400
                   /\ e.resp.body.error = ExactWindowMessage
            /\ CapRejected(e) =>
                   /\ ArrayReads(e) = <<>>
                   /\ e.wrote = 0
                   /\ caches[CacheOf("data")].entries = <<>>

\* the line of 20001 points asked with quality=exact is rejected after the
\* dataset info was read, the only call to the reader
C13_Witness ==
    \E i \in 1..Len(served) :
        /\ readerKind = "HDF5Reader"
        /\ fileShape = <<20001>>
        /\ served[i].req.args.quality = "exact"
        /\ served[i].resp = ErrorResponse(400, ExactWindowMessage)
        /\ Len(served[i].calls) = 1
        /\ served[i].calls[1].method = "get_dataset_info"

\* the product of the sizes of a shape
RECURSIVE ShapeProduct(_)
ShapeProduct(shape) ==
    IF shape = <<>> THEN 1 ELSE Head(shape) * ShapeProduct(Tail(shape))

\* the exchanges of /data answered 200 with the data that the reader read
\* from the file
ArrayAnswers ==
    {i \in 1..Len(served) :
        /\ served[i].req.endpoint = "data"
        /\ served[i].resp.status = 200
        /\ "data" \in DOMAIN served[i].resp.body.result}

\* C14: in every successful matrix, heatmap or line response of /data the
\* product of the shape equals the number of scalar elements of the data and
\* is at most MAX_JSON_ELEMENTS; so it is for a window whose offset lies at
\* or beyond the end of an axis, where the data is empty and the count zero.
C14_ShapeCountsData ==
    \A i \in ArrayAnswers :
        LET body == served[i].resp.body
            count == ElementCount(body.result.data, body.source_shape, 1)
        IN  /\ ShapeProduct(body.result.shape) = count
            /\ count <= MAX_JSON_ELEMENTS
            /\ body.result.data = EmptyData <=> count = 0

\* the matrix window from row 3000 on of a dataset of 2001 rows is answered
\* with no data and the shape 0 x 5
C14_Witness ==
    \E i \in ArrayAnswers :
        /\ fileShape = <<2001, 5>>
        /\ served[i].req.args.row_offset = IntText(3000)
        /\ served[i].resp.body.result.data = EmptyData
        /\ served[i].resp.body.result.shape = <<0, 5>>
        /\ Len(ArrayReads(served[i])) = 1

\* the exchanges of the matrix windows asked of a dataset of two dimensions
\* or more
MatrixWindows ==
    {i \in 1..Len(served) :
        /\ served[i].req.endpoint = "data"
        /\ served[i].req.args.mode = "matrix"
        /\ Len(fileShape) >= 2}

\* C15: MAX_MATRIX_ROWS and MAX_MATRIX_COLS apply to the size of the output
\* after stride: a matrix request is rejected by them only when out_rows =
\* ceil(row_limit / row_step) or out_cols exceeds the cap, the limits being
\* clamped to the dataset first, and a request whose strided output is within
\* the two caps and within the element caps is accepted.
C15_CapsAfterStride ==
    \A i \in MatrixWindows :
        LET e == served[i]
            out == MatrixOutputAsked(e)
        IN  /\ (e.resp.status = 400 /\ e.resp.body.error = MatrixLimitsMessage) =>
                   (out[1] > MAX_MATRIX_ROWS \/ out[2] > MAX_MATRIX_COLS)
            /\ (/\ out[1] <= MAX_MATRIX_ROWS
                /\ out[2] <= MAX_MATRIX_COLS
                /\ out[1] * out[2] <= MAX_JSON_ELEMENTS) => e.resp.status = 200

\* C15 as amended: MAX_MATRIX_ROWS and MAX_MATRIX_COLS apply to row_limit and
\* col_limit clamped to the dataset, before stride: a matrix request is
\* rejected by them exactly when one of the clamped limits exceeds its cap,
\* whatever the steps; otherwise it is rejected when the strided output
\* out_rows * out_cols exceeds MAX_JSON_ELEMENTS and accepted when it does
\* not.
C15_CapsBeforeStride ==
    \A i \in MatrixWindows :
        LET e == served[i]
            limits == MatrixLimitsAsked(e)
            out == MatrixOutputAsked(e)
        IN  IF limits[1] > MAX_MATRIX_ROWS \/ limits[2] > MAX_MATRIX_COLS
            THEN e.resp = ErrorResponse(400, MatrixLimitsMessage)
            ELSE IF out[1] * out[2] > MAX_JSON_ELEMENTS
            THEN e.resp = ErrorResponse(400, TooLargeMessage(out[1] * out[2]))
            ELSE e.resp.status = 200

\* 3000 rows of a 3000 x 3000 dataset asked with row_step=2, an output of
\* 1500 x 100, are rejected by MAX_MATRIX_ROWS before any array read
C15_Witness ==
    \E i \in MatrixWindows :
        /\ fileShape = <<3000, 3000>>
        /\ served[i].req.args.row_limit = IntText(3000)
        /\ served[i].req.args.row_step = IntText(2)
        /\ MatrixOutputAsked(served[i]) = <<1500, 100>>
        /\ served[i].resp = ErrorResponse(400, MatrixLimitsMessage)
        /\ ArrayReads(served[i]) = <<>>

(***************************************************************************)
(* What the reader raises, checked under SpecNode.                         *)
(***************************************************************************)
\* what the reader returned to, or raised in, the last call of an exchange
LastCallOf(e) ==
    LET call == e.calls[Len(e.calls)]
    IN  ReaderCall(readerKind, call.method, call.args, call.kwargs, fileShape,
                   call.version)

\* the reader reported the path of the request as not found
ReportedNotFound(e) ==
    /\ e.calls # <<>>
    /\ LastCallOf(e).exc # NoExc
    /\ LastCallOf(e).exc.type = "ValueError"
    /\ LastCallOf(e).exc.msg = NotFoundMessage(e.req.args.path, e.req.key)

\* C16: when the reader reports the internal path as not found, each of
\* /children, /meta, /preview and /data answers 404 with success=false and
\* the message of the reader.
C16_NotFound404 ==
    \A i \in 1..Len(served) :
        ReportedNotFound(served[i]) =>
            served[i].resp
                = ErrorResponse(404, NotFoundMessage(served[i].req.args.path,
                                                     served[i].req.key))

\* the reader raised TypeError for a path that is not a dataset
ReportedNotDataset(e) ==
    /\ e.calls # <<>>
    /\ LastCallOf(e).exc # NoExc
    /\ LastCallOf(e).exc.type = "TypeError"
    /\ LastCallOf(e).exc.msg = NotDatasetMessage(e.req.args.path)

\* C17: when the reader raises TypeError "... is not a dataset", each of
\* /meta, /preview and /data answers 400 with success=false.
C17_NotDataset400 ==
    \A i \in 1..Len(served) :
        (/\ served[i].req.endpoint \in {"meta", "preview", "data"}
         /\ ReportedNotDataset(served[i])) =>
            /\ served[i].resp.status = 400
            /\ served[i].resp.body.success = FALSE

(***************************************************************************)
(* Parameters missing or malformed, checked under SpecParam.               *)
(***************************************************************************)
\* the messages of the 400 responses to a missing or malformed path, mode,
\* detail, include_stats, max_size, quality, row or col offset, limit or
\* step, line_offset, line_limit or max_points
ParameterMessages ==
    {"Missing required parameter: path", "Missing required parameter: mode",
     "Invalid mode parameter", "Invalid detail parameter",
     "Invalid include_stats parameter", "Invalid quality parameter",
     "max_size must be a positive integer"}
    \cup {"Invalid " \o name \o " parameter" : name \in IntParamNames \ {"line_index"}}
    \cup {name \o " must be >= " \o ToString(min) :
             name \in IntParamNames \ {"line_index"}, min \in {0, 1}}

\* the exchanges of /preview and /data answered 400 for a parameter
ParameterRejections ==
    {i \in 1..Len(served) :
        /\ served[i].req.endpoint \in {"preview", "data"}
        /\ served[i].resp.status = 400
        /\ served[i].resp.body.error \in ParameterMessages}

\* C18: every /preview or /data request rejected with 400 for a missing or
\* malformed query parameter is rejected before any call to the reader or to
\* the object store.
C18_ValidationBeforeIO ==
    \A i \in ParameterRejections :
        /\ served[i].calls = <<>>
        /\ served[i].heads = <<>>

\* the parameters that a route validates before it looks its cache up
ValidatedFirst(e) ==
    \/ e.req.endpoint = "preview"
    \/ e.resp.body.error \in {"Missing required parameter: path",
                              "Missing required parameter: mode",
                              "Invalid mode parameter"}

\* C18 as amended: every /preview or /data request rejected with 400 for a
\* missing or malformed query parameter is rejected before any array read,
\* before any write to a response cache and without a call to the object
\* store; /preview for any of its parameters, and /data for path and mode,
\* reject before any call to the reader; /data rejects its other parameters
\* after the dataset info, which it reads with reader.get_dataset_info when
\* the dataset cache does not hold it.  A /preview request with a path and a
\* detail other than fast or full is so rejected.
C18_ValidationBeforeRead ==
    /\ \A i \in ParameterRejections :
        LET e == served[i]
        IN  /\ e.heads = <<>>
            /\ ArrayReads(e) = <<>>
            /\ e.wrote = 0
            /\ IF ValidatedFirst(e) THEN e.calls = <<>>
               ELSE /\ e.informed
                    /\ \A k \in 1..Len(e.calls) :
                           e.calls[k].method = "get_dataset_info"
    /\ \A i \in 1..Len(served) :
        (/\ served[i].req.endpoint = "preview"
         /\ ~Falsy(served[i].req.args.path)
         /\ served[i].req.args.detail = "ultra") =>
            /\ served[i].resp = ErrorResponse(400, "Invalid detail parameter")
            /\ served[i].calls = <<>>

\* /data in line mode with quality=best is answered 400 after one call of
\* get_dataset_info and no array read
C18_Witness ==
    \E i \in ParameterRejections :
        /\ served[i].req.endpoint = "data"
        /\ served[i].req.args.quality = "best"
        /\ served[i].resp = ErrorResponse(400, "Invalid quality parameter")
        /\ Len(served[i].calls) = 1
        /\ served[i].calls[1].method = "get_dataset_info"
        /\ ArrayReads(served[i]) = <<>>

(***************************************************************************)
(* storage/minio_client.py and routes/files.py: the listing of the bucket. *)
(*                                                                         *)
(* An object key and a prefix are sequences of characters.  The bucket is  *)
(* the set of its keys; list_objects_v2 lists them in the order of their   *)
(* characters.                                                             *)
(***************************************************************************)
\* the rank of the characters used, as their code points are ordered
CharRank(ch) ==
    CASE ch = " " -> 0
      [] ch = "/" -> 1
      [] ch = "a" -> 2
      [] ch = "b" -> 3
      [] ch = "c" -> 4
      [] ch = "d" -> 5

\* a < b for two keys
RECURSIVE KeyLess(_, _)
KeyLess(a, b) ==
    IF b = <<>> THEN FALSE
    ELSE IF a = <<>> THEN TRUE
    ELSE IF Head(a) # Head(b) THEN CharRank(Head(a)) < CharRank(Head(b))
    ELSE KeyLess(Tail(a), Tail(b))

\* sorted(keys)
RECURSIVE SortedKeys(_)
SortedKeys(keys) ==
    IF keys = {} THEN <<>>
    ELSE LET first == CHOOSE k \in keys : \A other \in keys \ {k} : KeyLess(k, other)
         IN  <<first>> \o SortedKeys(keys \ {first})

\* key.startswith(prefix)
StartsWith(key, prefix) ==
    Len(prefix) <= Len(key) /\ SubSeq(key, 1, Len(prefix)) = prefix

\* s.lstrip(ch)
RECURSIVE LStrip(_, _)
LStrip(s, ch) == IF s # <<>> /\ Head(s) = ch THEN LStrip(Tail(s), ch) ELSE s

\* s.rstrip(ch)
RECURSIVE RStrip(_, _)
RStrip(s, ch) ==
    IF s # <<>> /\ s[Len(s)] = ch THEN RStrip(SubSeq(s, 1, Len(s) - 1), ch) ELSE s

\* s.strip() of a sequence of characters
StripChars(s) == RStrip(LStrip(s, " "), " ")

\* MinIOClient._normalize_prefix
NormalizePrefix(prefix) == LStrip(StripChars(prefix), "/")

\* MinIOClient._derive_parent_folders, for keys without an empty part
DeriveParentFolders(key, normalized_prefix) ==
    {SubSeq(key, 1, k) : k \in {j \in 1..(Len(key) - 1) :
        /\ key[j] = "/"
        /\ normalized_prefix # <<>> => StartsWith(SubSeq(key, 1, j), normalized_prefix)}}

FileEntry(key) == [key |-> key, type |-> "file", is_folder |-> FALSE]

FolderEntry(key) == [key |-> key, type |-> "folder", is_folder |-> TRUE]

\* [FolderEntry(folder) for folder in folders], the folders being sorted
FolderEntries(folders) ==
    [k \in 1..Len(folders) |-> FolderEntry(folders[k])]

\* list_objects: the loop over the keys that the paginator yields, left at
\* once when max_items files are listed
RECURSIVE ListLoopNoLimit(_, _, _, _, _, _)
ListLoopNoLimit(keys, normalized_prefix, include_folders, max_items, objects, folders) ==
    IF keys = <<>> THEN [objects |-> objects, folders |-> folders]
    ELSE LET key == Head(keys)
             listed == Append(objects, FileEntry(key))
             parents == IF include_folders
                        THEN folders \cup DeriveParentFolders(key, normalized_prefix)
                        ELSE folders
         IN  IF key[Len(key)] = "/"
             THEN ListLoopNoLimit(Tail(keys), normalized_prefix, include_folders,
                                  max_items, objects,
                                  IF include_folders THEN folders \cup {key} ELSE folders)
             ELSE ListLoopNoLimit(Tail(keys), normalized_prefix, include_folders,
                                  max_items, listed, parents)

RECURSIVE ListLoop(_, _, _, _, _, _)
ListLoop(keys, normalized_prefix, include_folders, max_items, objects, folders) ==
    IF keys = <<>> THEN [objects |-> objects, folders |-> folders]
    ELSE LET key == Head(keys)
             listed == Append(objects, FileEntry(key))
             parents == IF include_folders
                        THEN folders \cup DeriveParentFolders(key, normalized_prefix)
                        ELSE folders
         IN  IF key[Len(key)] = "/"
             THEN ListLoop(Tail(keys), normalized_prefix, include_folders, max_items,
                           objects,
                           IF include_folders THEN folders \cup {key} ELSE folders)
             ELSE IF Len(listed) >= max_items
             THEN [objects |-> listed, folders |-> parents]
             ELSE ListLoop(Tail(keys), normalized_prefix, include_folders, max_items,
                           listed, parents)

\* MinIOClient.list_objects of a bucket holding the keys
ListObjects(prefix, include_folders, max_items, keys) ==
    LET normalized_prefix == NormalizePrefix(prefix)
        normalized_max_items == Max(1, max_items)
        paginated == SortedKeys({k \in keys : StartsWith(k, normalized_prefix)})
        looped == ListLoop(paginated, normalized_prefix, include_folders,
                           normalized_max_items, <<>>, {})
    IN  looped.objects \o FolderEntries(SortedKeys(looped.folders))

\* routes/files.py, _parse_int_param: int(raw) raises for the empty string
\* as for any text that is not an integer
FilesParseIntParamNoMax(raw, name, default, min_value, max_value) ==
    IF raw.kind = "absent" THEN Ok(default)
    ELSE IF raw.kind # "int" THEN Raise("Invalid " \o name \o " parameter")
    ELSE IF raw.val < min_value
    THEN Raise(name \o " must be between " \o ToString(min_value) \o " and "
                   \o ToString(max_value))
    ELSE Ok(raw.val)

FilesParseIntParam(raw, name, default, min_value, max_value) ==
    IF raw.kind = "absent" THEN Ok(default)
    ELSE IF raw.kind # "int" THEN Raise("Invalid " \o name \o " parameter")
    ELSE IF raw.val < min_value \/ raw.val > max_value
    THEN Raise(name \o " must be between " \o ToString(min_value) \o " and "
                   \o ToString(max_value))
    ELSE Ok(raw.val)

\* list_files: the default and the range of max_items
DEFAULT_MAX_ITEMS == 20000

MIN_MAX_ITEMS == 1

MAX_MAX_ITEMS == 50000

\* _files_cache = SimpleCache(default_ttl=30, max_entries=200)
FILES_MAX_ENTRIES == 200

\* sum(1 for entry in entries if entry.get('type') == kind)
CountOfType(entries, kind) ==
    Cardinality({k \in 1..Len(entries) : entries[k].type = kind})

\* list_files: the body of the 200 response
FilesBody(entries, params, cached) ==
    [success |-> TRUE,
     count |-> Len(entries),
     files |-> entries,
     files_count |-> CountOfType(entries, "file"),
     folders_count |-> CountOfType(entries, "folder"),
     truncated |-> CountOfType(entries, "file") >= params.max_items,
     prefix |-> params.prefix,
     include_folders |-> params.include_folders,
     max_items |-> params.max_items,
     cached |-> cached]

\* GET /files/?prefix=...&include_folders=...&max_items=...
FilesRequest(prefix, include_folders, max_items) ==
    [endpoint |-> "files", key |-> "",
     args |-> [prefix |-> prefix, include_folders |-> include_folders,
               max_items |-> max_items]]

\* list_files up to the lookup in the cache; the key is the f-string
\* "files_list:{prefix}:{include_folders}:{max_items}", of which no prefix
\* used holds a ':'
FilesBeginStep(h, cs, t) ==
    LET args == h.req.args
        prefix == StripChars(args.prefix)
        fo == ParseBoolParam(args.include_folders, "include_folders", TRUE)
        mi == FilesParseIntParam(args.max_items, "max_items", DEFAULT_MAX_ITEMS,
                                 MIN_MAX_ITEMS, MAX_MAX_ITEMS)
        err == FirstErr(<<fo, mi>>)
        params == [prefix |-> prefix, include_folders |-> fo.val, max_items |-> mi.val]
        cache_key == <<"files_list", prefix, fo.val, mi.val>>
        got == Lookup(cs["files"], cache_key, t)
        h1 == [h EXCEPT !.cache_key = cache_key, !.info = params,
                        !.missed = ~got.hit, !.looked = t]
    IN  IF err # ""
        THEN [caches |-> cs, handler |-> Respond(h, ErrorResponse(400, err))]
        ELSE [caches |-> [cs EXCEPT !["files"] = got.cache],
              handler |-> IF got.hit
                          THEN Respond(h1, [status |-> 200,
                                            body |-> FilesBody(got.value, params, TRUE)])
                          ELSE [h1 EXCEPT !.pc = "list"]]

\* list_files: minio.list_objects(prefix=, include_folders=, max_items=); the
\* call is recorded with the keys that the bucket held
FilesListStep(h, keys) ==
    [h EXCEPT !.pc = "store",
              !.calls = Append(@, [method |-> "list_objects", args |-> h.info,
                                   kwargs |-> <<"prefix", "include_folders", "max_items">>,
                                   version |-> keys]),
              !.payload = ListObjects(h.info.prefix, h.info.include_folders,
                                      h.info.max_items, keys)]

\* list_files: cache.set and the 200 response
FilesStoreStep(h, cs, t, n) ==
    [caches |-> [cs EXCEPT !["files"] =
                     CacheSet(@, h.cache_key, h.payload, <<>>, t, t).cache],
     handler |-> Respond([h EXCEPT !.wrote = n],
                         [status |-> 200, body |-> FilesBody(h.payload, h.info, FALSE)])]

(***************************************************************************)
(* The listing served to two clients, one after the other, while objects   *)
(* are put in the bucket.                                                  *)
(***************************************************************************)
\* the keys that the bucket may hold: three files, one of them in the folder
\* "d/", and the marker of the folder
BucketKeys == {<<"a">>, <<"b">>, <<"d", "/">>, <<"d", "/", "c">>}

\* the requests: with and without a prefix and folders, max_items absent and
\* within its range, and max_items empty, not a number and around the ends of
\* its range
FilesPool ==
    {FilesRequest(prefix, None, mi) :
        prefix \in {<<>>, <<" ", "/", "d", "/">>},
        mi \in {Absent, IntText(1), IntText(2)}}
    \cup
    {FilesRequest(<<>>, "false", IntText(1))}
    \cup
    {FilesRequest(<<>>, None, mi) :
        mi \in {EmptyText, BadText, IntText(0), IntText(MAX_MAX_ITEMS),
                IntText(MAX_MAX_ITEMS + 1)}}
    \cup
    {FilesRequest(<<>>, "maybe", Absent)}

\* the seconds by which time.time() advances at once: to the expiry time of
\* an entry of the files cache and past it
FilesTickSizes == {FILES_TTL, FILES_TTL + 1}

\* a client asks for a listing when no other listing is being served
FilesIssue(c) ==
    /\ c \in active
    /\ clients[c].pc = "idle"
    /\ \A other \in Clients : clients[other].pc \in {"idle", "done"}
    /\ \E req \in FilesPool :
           clients' = [clients EXCEPT ![c] =
                          [IdleHandler EXCEPT !.pc = "begin", !.req = req,
                                              !.began = Len(served)]]
    /\ UNCHANGED <<readerKind, fileShape, version, pool, active, caches, served,
                   writes, sel, bucket>>
    /\ UNCHANGED <<cacheVars, threadVars>>

FilesBegin(c) ==
    /\ clients[c].pc = "begin"
    /\ LET r == FilesBeginStep(clients[c], caches, now)
       IN  Advance(c, r.handler, r.caches)
    /\ UNCHANGED <<readerKind, fileShape, version, pool, active, writes, sel,
                   bucket>>
    /\ UNCHANGED <<cacheVars, threadVars>>

FilesList(c) ==
    /\ clients[c].pc = "list"
    /\ Advance(c, FilesListStep(clients[c], bucket), caches)
    /\ UNCHANGED <<readerKind, fileShape, version, pool, active, writes, sel,
                   bucket>>
    /\ UNCHANGED <<cacheVars, threadVars>>

FilesStore(c) ==
    /\ clients[c].pc = "store"
    /\ LET r == FilesStoreStep(clients[c], caches, now, writes + 1)
       IN  Advance(c, r.handler, r.caches)
    /\ writes' = writes + 1
    /\ UNCHANGED <<readerKind, fileShape, version, pool, active, sel, bucket>>
    /\ UNCHANGED <<cacheVars, threadVars>>

\* time passes
FilesTick ==
    \E d \in FilesTickSizes :
        /\ ticks < MaxTicks
        /\ ticks' = ticks + 1
        /\ now' = now + d
        /\ UNCHANGED <<cache, cacheName, last, recency, setOrder, deadline>>
        /\ UNCHANGED <<threadVars, routeVars>>

\* an object is uploaded under a key that the bucket does not hold
PutObject ==
    /\ version < MaxVersion
    /\ version' = version + 1
    /\ \E key \in BucketKeys \ bucket : bucket' = bucket \cup {key}
    /\ UNCHANGED <<readerKind, fileShape, pool, active, caches, clients, served,
                   writes, sel>>
    /\ UNCHANGED <<cacheVars, threadVars>>

NextFiles ==
    \/ FilesTick
    \/ PutObject
    \/ \E c \in Clients :
        \/ FilesIssue(c)
        \/ FilesBegin(c)
        \/ FilesList(c)
        \/ FilesStore(c)

InitFiles ==
    /\ readerKind = ""
    /\ fileShape = <<>>
    /\ version = 1
    /\ pool = "files"
    /\ active = Clients
    /\ caches = [files |-> NewCache(FILES_TTL, FILES_MAX_ENTRIES)]
    /\ clients = [c \in Clients |-> IdleHandler]
    /\ served = <<>>
    /\ writes = 0
    /\ sel = <<>>
    /\ bucket \in {{<<"a">>}, {<<"a">>, <<"b">>}, {<<"a">>, <<"d", "/">>, <<"d", "/", "c">>}}
    /\ CacheUnused

SpecFiles == InitFiles /\ [][NextFiles]_vars

(***************************************************************************)
(* The listing, checked under SpecFiles.                                   *)
(***************************************************************************)
\* the max_items of a request is not an integer or lies outside its range
MaxItemsMalformed(e) ==
    \/ e.req.args.max_items.kind \in {"empty", "bad"}
    \/ /\ e.req.args.max_items.kind = "int"
       /\ \/ e.req.args.max_items.val < MIN_MAX_ITEMS
          \/ e.req.args.max_items.val > MAX_MAX_ITEMS

\* the include_folders of a request is absent or one of the words accepted
IncludeFoldersGiven(e) ==
    \/ e.req.args.include_folders = None
    \/ StripLower(e.req.args.include_folders)
           \in {"1", "true", "yes", "on", "0", "false", "no", "off"}

Listings == {i \in 1..Len(served) : served[i].resp.status = 200}

\* the exchange that listed the bucket for the listing of exchange i: itself
\* when it missed the cache, else the exchange that stored the listing
ListerOf(i) ==
    IF served[i].missed THEN i
    ELSE CHOOSE j \in 1..(i - 1) :
             /\ served[j].wrote > 0
             /\ served[j].cache_key = served[i].cache_key

\* the keys of the files that matched the prefix when the bucket was listed
MatchingFiles(i) ==
    {key \in served[ListerOf(i)].calls[1].version :
        /\ StartsWith(key, NormalizePrefix(served[i].resp.body.prefix))
        /\ key[Len(key)] # "/"}

\* a matching file is not in the listing
LeftOut(i) == Cardinality(MatchingFiles(i)) > served[i].resp.body.files_count

\* C20: a listing never holds more than max_items file entries, and
\* truncated is true exactly when at least one matching file was left out
\* because max_items was reached, on a cache miss and on a cache hit.
C20_TruncatedIffLeftOut ==
    \A i \in Listings :
        LET body == served[i].resp.body
        IN  /\ body.files_count = CountOfType(body.files, "file")
            /\ body.files_count <= body.max_items
            /\ body.truncated <=> LeftOut(i)

\* C20 as amended: a listing never holds more than max_items file entries:
\* it holds the first max_items matching files, or all of them when they are
\* fewer; truncated is true exactly when the listing holds max_items files,
\* which is so whenever a matching file was left out, and also when the
\* bucket held exactly max_items matching files and none was left out; on a
\* cache hit the listing and truncated are those of the response that stored
\* the listing.
C20_TruncatedIffFull ==
    \A i \in Listings :
        LET body == served[i].resp.body
        IN  /\ body.files_count = CountOfType(body.files, "file")
            /\ body.files_count <= body.max_items
            /\ body.files_count = Min(body.max_items, Cardinality(MatchingFiles(i)))
            /\ body.truncated <=> body.files_count = body.max_items
            /\ LeftOut(i) => body.truncated
            /\ ~served[i].missed =>
                   /\ body.cached
                   /\ served[i].calls = <<>>
                   /\ [body EXCEPT !.cached = FALSE] = served[ListerOf(i)].resp.body

\* the bucket holds the file "a" only and its listing with max_items=1, which
\* leaves no file out, says truncated, from the bucket and from the cache
C20_Witness ==
    \E i \in Listings :
        /\ i > 1
        /\ ~served[i].missed
        /\ served[i].resp.body.max_items = 1
        /\ MatchingFiles(i) = {<<"a">>}
        /\ served[i].resp.body.files = <<FileEntry(<<"a">>)>>
        /\ served[i].resp.body.truncated
        /\ ~LeftOut(i)
        /\ served[1].resp.body.truncated

(***************************************************************************)
(* POST /files/refresh while listings and requests for the stored file are *)
(* served.                                                                 *)
(***************************************************************************)
\* the file-list cache is flushed at most MaxRefreshes times
MaxRefreshes == 1

\* refresh_files: get_files_cache().clear()
RefreshStep(cs) == [cs EXCEPT !["files"] = CacheClear(@)]

\* POST /files/refresh
RefreshRequest == [endpoint |-> "refresh", key |-> "", args |-> NoArgs]

\* the 200 response of refresh_files
RefreshResponse ==
    [status |-> 200,
     body |-> [success |-> TRUE, message |-> "Cache cleared successfully"]]

\* the listing asked around a refresh, and two requests for the stored file,
\* which fill the hdf5, dataset and data caches
RefreshPool ==
    {FilesRequest(<<>>, None, Absent),
     Request("meta", [NoArgs EXCEPT !.path = "/d"]),
     Request("data", [DataArgs("matrix") EXCEPT !.row_limit = IntText(1)])}

\* the exchanges of POST /files/refresh
Refreshes == {i \in 1..Len(served) : served[i].req.endpoint = "refresh"}

\* a client sends a listing request or a request for the stored file
RefreshIssue(c) ==
    /\ c \in active
    /\ clients[c].pc = "idle"
    /\ \E req \in RefreshPool :
           clients' = [clients EXCEPT ![c] =
                          [IdleHandler EXCEPT !.pc = "begin", !.req = req,
                                              !.began = Len(served)]]
    /\ UNCHANGED <<readerKind, fileShape, version, pool, active, caches, served,
                   writes, sel, bucket>>
    /\ UNCHANGED <<cacheVars, threadVars>>

\* the handler of the route of the request starts
RefreshBegin(c) ==
    IF clients[c].req.endpoint = "files" THEN FilesBegin(c) ELSE Begin(c)

\* the handler of the route of the request stores its response
RefreshStore(c) ==
    IF clients[c].req.endpoint = "files" THEN FilesStore(c) ELSE Store(c)

\* the clients whose listing has looked the cache up and has not been answered
LookedUp ==
    {c \in Clients : clients[c].req.endpoint = "files"
                        /\ clients[c].pc \in {"list", "store"}}

\* refresh_files, sent by the operator; the exchange records the global
\* caches as the handler found and left them, and the clients whose listing
\* had looked the cache up before the flush
Refresh ==
    /\ Cardinality(Refreshes) < MaxRefreshes
    /\ caches' = RefreshStep(caches)
    /\ served' = Append(served,
                        Exchange("operator",
                                 [IdleHandler EXCEPT
                                      !.req = RefreshRequest,
                                      !.resp = RefreshResponse,
                                      !.began = Len(served),
                                      !.looked = now,
                                      !.payload = [before |-> caches,
                                                   after |-> RefreshStep(caches),
                                                   looked |-> LookedUp]],
                                 now))
    /\ UNCHANGED <<readerKind, fileShape, version, pool, active, clients, writes,
                   sel, bucket>>
    /\ UNCHANGED <<cacheVars, threadVars>>

NextRefresh ==
    \/ PutObject
    \/ Refresh
    \/ \E c \in Clients :
        \/ RefreshIssue(c)
        \/ RefreshBegin(c)
        \/ FilesList(c)
        \/ Info(c)
        \/ InfoSet(c)
        \/ Read(c)
        \/ RefreshStore(c)

InitRefresh ==
    /\ readerKind = "HDF5Reader"
    /\ fileShape = PlainShape
    /\ version = 1
    /\ pool = "refresh"
    /\ active = Clients
    /\ caches = [files |-> NewCache(FILES_TTL, FILES_MAX_ENTRIES),
                 hdf5 |-> GlobalCaches.hdf5,
                 dataset |-> GlobalCaches.dataset,
                 data |-> GlobalCaches.data]
    /\ clients = [c \in Clients |-> IdleHandler]
    /\ served = <<>>
    /\ writes = 0
    /\ sel = <<>>
    /\ bucket = {<<"a">>}
    /\ CacheUnused

SpecRefresh == InitRefresh /\ [][NextRefresh]_vars

(***************************************************************************)
(* The refresh, checked under SpecRefresh.                                 *)
(***************************************************************************)
\* the listings that looked the cache up after the refresh of exchange r had
\* flushed it
ListingsAfter(r) ==
    {i \in Listings : /\ served[i].req.endpoint = "files"
                      /\ i > r
                      /\ served[i].client \notin served[r].payload.looked}

\* the first listing of its combination of prefix, include_folders and
\* max_items that looked the cache up after the refresh of exchange r
NextListing(r, i) ==
    /\ i \in ListingsAfter(r)
    /\ \A j \in ListingsAfter(r) :
           served[j].cache_key = served[i].cache_key => i <= j

\* the caches other than the file-list cache
OtherCaches(cs) == [name \in DOMAIN cs \ {"files"} |-> cs[name]]

\* C21: POST /files/refresh flushes the file-list cache: the next GET /files/
\* of any combination of prefix, include_folders and max_items that looks the
\* cache up after the refresh has returned is a cache miss, answered with cached=false from a
\* new listing of the object store; the refresh leaves the hdf5, dataset
\* and data caches as they were.
C21_RefreshFlushes ==
    \A r \in Refreshes :
        /\ served[r].resp = RefreshResponse
        /\ served[r].payload.after.files.entries = <<>>
        /\ OtherCaches(served[r].payload.after) = OtherCaches(served[r].payload.before)
        /\ \A i \in 1..Len(served) :
               NextListing(r, i) =>
                   /\ served[i].missed
                   /\ served[i].resp.body.cached = FALSE
                   /\ Len(served[i].calls) = 1
                   /\ served[i].calls[1].method = "list_objects"

(***************************************************************************)
(* get_minio_client and get_hdf5_reader called by request threads.  A call *)
(* is four statements, between which the other thread may run: the test of *)
(* the global, the constructor, the assignment and the return.             *)
(***************************************************************************)
\* a thread calls the getters at most MaxCalls times
MaxCalls == 2

\* the getters: get_minio_client (_minio_client) and get_hdf5_reader
\* (_hdf5_reader)
Getters == {"minio", "reader"}

\* the n-th object that a constructor makes
Instance(n) == "instance " \o ToString(n)

\* the calls of the getters that thread t has returned from
CallsOf(t) == {k \in 1..Len(handed) : handed[k].thread = t}

\* a request thread calls a getter
GetterCall(t) ==
    /\ pc[t] = "idle"
    /\ Cardinality(CallsOf(t)) < MaxCalls
    /\ \E g \in Getters :
           frame' = [frame EXCEPT ![t] = [IdleFrame EXCEPT !.op = g]]
    /\ pc' = [pc EXCEPT ![t] = "n_check"]
    /\ UNCHANGED <<cacheVars, lock, routeVars, singletonVars>>

\* if _minio_client is None:
GetterCheck(t) ==
    /\ pc[t] = "n_check"
    /\ pc' = [pc EXCEPT ![t] = IF globals[frame[t].op] = None
                               THEN "n_build" ELSE "n_return"]
    /\ UNCHANGED <<cacheVars, lock, frame, routeVars, singletonVars>>

\* MinIOClient(): the constructor runs and makes the next instance
GetterBuild(t) ==
    /\ pc[t] = "n_build"
    /\ built' = [built EXCEPT ![frame[t].op] = @ + 1]
    /\ frame' = [frame EXCEPT ![t].entry = Instance(built[frame[t].op] + 1)]
    /\ pc' = [pc EXCEPT ![t] = "n_assign"]
    /\ UNCHANGED <<cacheVars, lock, routeVars, globals, handed, reads>>

\* _minio_client = the instance made
GetterAssign(t) ==
    /\ pc[t] = "n_assign"
    /\ globals' = [globals EXCEPT ![frame[t].op] = frame[t].entry]
    /\ pc' = [pc EXCEPT ![t] = "n_return"]
    /\ UNCHANGED <<cacheVars, lock, frame, routeVars, built, handed, reads>>

\* return _minio_client
GetterReturn(t) ==
    /\ pc[t] = "n_return"
    /\ handed' = Append(handed, [thread |-> t, getter |-> frame[t].op,
                                 instance |-> globals[frame[t].op]])
    /\ frame' = [frame EXCEPT ![t] = IdleFrame]
    /\ pc' = [pc EXCEPT ![t] = "idle"]
    /\ UNCHANGED <<cacheVars, lock, routeVars, globals, built, reads>>

NextSingleton ==
    \E t \in Threads :
        \/ GetterCall(t)
        \/ GetterCheck(t)
        \/ GetterBuild(t)
        \/ GetterAssign(t)
        \/ GetterReturn(t)

InitSingleton ==
    /\ cacheName = "data"
    /\ cache = NewCache(DefaultTTLOf(cacheName), 1)
    /\ now = 0
    /\ ticks = 0
    /\ last = NoOp
    /\ recency = <<>>
    /\ setOrder = <<>>
    /\ deadline = [k \in Keys |-> <<>>]
    /\ ThreadsIdle
    /\ RoutesIdle

SpecSingleton == InitSingleton /\ [][NextSingleton]_vars

\* C22: the object-store client and the reader are singletons of the process:
\* under any interleaving of concurrent first calls of get_minio_client
\* (get_hdf5_reader) the constructor runs at most once, exactly once when a
\* call has returned, and every caller receives the same instance.
C22_OneInstance ==
    \A g \in Getters :
        /\ built[g] <= 1
        /\ \A k \in 1..Len(handed) :
               handed[k].getter = g =>
                   /\ built[g] = 1
                   /\ handed[k].instance = Instance(1)

(***************************************************************************)
(* MinIOClient.get_object_range.  The method formats the header            *)
(* "bytes={start}-{end}", sends GetObject with it and returns the body; the *)
(* object store answers the header the way HTTP byte ranges are answered.  *)
(***************************************************************************)
\* get_object_range is called at most MaxReads times
MaxReads == 1

\* the bytes of the objects of the bucket: "a" holds four bytes, "b" none
ObjectBytes(key) ==
    CASE key = <<"a">> -> <<10, 11, 12, 13>>
      [] key = <<"b">> -> <<>>

\* the parts of the header that matter to its parser: '-' and the digits of
\* a number
Dash == [kind |-> "dash", val |-> 0]

Digits(n) == [kind |-> "digits", val |-> n]

\* str(n): the sign of a negative number and its digits
NumberText(n) == IF n < 0 THEN <<Dash, Digits(-n)>> ELSE <<Digits(n)>>

\* range_header = f"bytes={start}-{end}", without the unit
RangeHeader(start, end) == NumberText(start) \o <<Dash>> \o NumberText(end)

\* the header is first-byte-pos "-" last-byte-pos
WellFormedRange(header) ==
    /\ Len(header) = 3
    /\ header[1].kind = "digits"
    /\ header[2].kind = "dash"
    /\ header[3].kind = "digits"

\* raise ClientError
ClientError(code) == Throw("ClientError", code)

\* client.get_object(Bucket, Key, Range)['Body'].read(): the outcomes that an
\* S3-compatible store can give.  An absent key is NoSuchKey.  A header that
\* is no byte range, or whose last position is before its first, is ignored
\* and the whole object returned, or refused as InvalidRange, depending on the
\* store.  A first position at or past the end of the object is InvalidRange.
\* A last position past the end of the object is taken as the last byte.
GetObject(keys, key, header) ==
    IF key \notin keys THEN {ClientError("NoSuchKey")}
    ELSE IF ~WellFormedRange(header) \/ header[1].val > header[3].val
    THEN {Return(ObjectBytes(key)), ClientError("InvalidRange")}
    ELSE IF header[1].val >= Len(ObjectBytes(key))
    THEN {ClientError("InvalidRange")}
    ELSE {Return(SubSeq(ObjectBytes(key), header[1].val + 1,
                        Min(header[3].val, Len(ObjectBytes(key)) - 1) + 1))}

\* MinIOClient.get_object_range(key, start, end): the body read, or the
\* ClientError raised again
GetObjectRange(keys, key, start, end) == GetObject(keys, key, RangeHeader(start, end))

\* the keys and the positions that get_object_range is called with
RangeKeys == {<<"a">>, <<"b">>, <<"x">>}

RangePositions == -1..5

\* a call of get_object_range
ReadRange ==
    /\ Len(reads) < MaxReads
    /\ \E key \in RangeKeys, start \in RangePositions, end \in RangePositions :
         \E out \in GetObjectRange(bucket, key, start, end) :
           reads' = Append(reads, [key |-> key, start |-> start, end |-> end,
                                   size |-> IF key \in bucket
                                            THEN Len(ObjectBytes(key)) ELSE -1,
                                   out |-> out])
    /\ UNCHANGED <<cacheVars, lock, pc, frame, routeVars, globals, built, handed>>

NextRange == ReadRange

InitRange ==
    /\ readerKind = ""
    /\ fileShape = <<>>
    /\ version = 1
    /\ pool = "range"
    /\ active = {}
    /\ caches = GlobalCaches
    /\ clients = [c \in Clients |-> IdleHandler]
    /\ served = <<>>
    /\ writes = 0
    /\ sel = <<>>
    /\ bucket = {<<"a">>, <<"b">>}
    /\ CacheUnused

SpecRange == InitRange /\ [][NextRange]_vars

\* the key exists and 0 <= start <= end < size
ValidRange(r) == r.size >= 0 /\ 0 <= r.start /\ r.start <= r.end /\ r.end < r.size

\* C23: get_object_range(key, start, end) returns exactly end - start + 1
\* bytes, those of the object at start..end, when the key exists and
\* 0 <= start <= end < size; for any other (start, end) and for an absent key
\* it raises an error.
C23_RangeOrError ==
    \A k \in 1..Len(reads) :
        LET r == reads[k]
        IN  IF ValidRange(r)
            THEN /\ r.out.exc = NoExc
                 /\ Len(r.out.val) = r.end - r.start + 1
                 /\ r.out.val = SubSeq(ObjectBytes(r.key), r.start + 1, r.end + 1)
            ELSE r.out.exc # NoExc

(***************************************************************************)
(* The envelope of the 200 responses, checked under SpecEnvelope: two      *)
(* clients send a request of any endpoint each, at the same time or one    *)
(* after the other.                                                        *)
(***************************************************************************)
InitEnvelope ==
    /\ readerKind \in ReaderKinds
    /\ fileShape = PlainShape
    /\ version = 1
    /\ pool = "envelope"
    /\ active = Clients
    /\ caches = GlobalCaches
    /\ clients = [c \in Clients |-> IdleHandler]
    /\ served = <<>>
    /\ writes = 0
    /\ sel = <<>>
    /\ bucket = {}
    /\ CacheUnused

SpecEnvelope == InitEnvelope /\ [][NextRoutes]_vars

\* the exchanges answered 200
Successes == {i \in 1..Len(served) : served[i].resp.status = 200}

\* the body says success=true and tells with a boolean whether the response
\* came from the cache
SaysCached(e) ==
    /\ "success" \in DOMAIN e.resp.body
    /\ e.resp.body.success = TRUE
    /\ "cached" \in DOMAIN e.resp.body
    /\ e.resp.body.cached = ~e.missed

\* the body carries the cache version tag of the request, a string
SaysCacheVersion(e) ==
    /\ "cache_version" \in DOMAIN e.resp.body
    /\ e.resp.body.cache_version = ResolveCacheVersionTag(e.req.args.etag)

\* C24: every 2xx response of /children, /meta, /preview and /data carries
\* success=true, a boolean cached and a string cache_version, on a cache hit
\* as on a cache miss.
C24_EnvelopeEverywhere ==
    \A i \in Successes : SaysCached(served[i]) /\ SaysCacheVersion(served[i])

(***************************************************************************)
(* HDF5Reader.get_matrix and get_heatmap called with every pair of         *)
(* display dims of a 2-D and of a 3-D dataset.                             *)
(***************************************************************************)
\* the shapes of the dataset "/d"
OrientShapes == {<<2, 3>>, <<2, 3, 2>>}

\* the pairs of distinct display dims of a dataset of ndim dimensions
DimPairs(ndim) ==
    {p \in (0..(ndim - 1)) \X (0..(ndim - 1)) : p[1] # p[2]}

\* the fixed indices that _normalize_selection leaves for the display dims: an
\* index of every other axis
FixedFor(shape, dims) ==
    IF Len(shape) = 2 THEN {<<>>}
    ELSE LET other == CHOOSE d \in 0..2 : d # dims[1] /\ d # dims[2]
         IN  {<<[key |-> other, value |-> idx]>> :
                 idx \in 0..(SizeOf(shape, other) - 1)}

\* the windows of get_matrix: inside the plane, past its end and strided
MatrixWindowArgs ==
    [row_offset : {0, 1, 3}, row_limit : {1, 3}, row_step : {1, 2},
     col_offset : {0, 1}, col_limit : {3}, col_step : {1, 2}]

\* the max_size of get_heatmap
HeatmapSizes == {1, 2, 3}

\* reader.get_matrix(...) on the stored dataset
ReadMatrix ==
    /\ Len(reads) < MaxReads
    /\ \E dims \in DimPairs(Len(fileShape)), w \in MatrixWindowArgs :
         \E fixed \in FixedFor(fileShape, dims) :
           LET a == [key |-> FileKey, path |-> "/d", display_dims |-> dims,
                     fixed_indices |-> fixed,
                     row_offset |-> w.row_offset, row_limit |-> w.row_limit,
                     row_step |-> w.row_step, col_offset |-> w.col_offset,
                     col_limit |-> w.col_limit, col_step |-> w.col_step]
           IN  reads' = Append(reads, [method |-> "get_matrix", args |-> a,
                                       out |-> GetMatrix(a, fileShape, version)])
    /\ UNCHANGED <<cacheVars, lock, pc, frame, routeVars, globals, built, handed>>

\* reader.get_heatmap(...) on the stored dataset
ReadHeatmap ==
    /\ Len(reads) < MaxReads
    /\ \E dims \in DimPairs(Len(fileShape)), max_size \in HeatmapSizes :
         \E fixed \in FixedFor(fileShape, dims) :
           LET a == [key |-> FileKey, path |-> "/d", display_dims |-> dims,
                     fixed_indices |-> fixed, max_size |-> max_size]
           IN  reads' = Append(reads, [method |-> "get_heatmap", args |-> a,
                                       out |-> GetHeatmap(a, fileShape, version)])
    /\ UNCHANGED <<cacheVars, lock, pc, frame, routeVars, globals, built, handed>>

NextOrient == ReadMatrix \/ ReadHeatmap

InitOrient ==
    /\ readerKind = "HDF5Reader"
    /\ fileShape \in OrientShapes
    /\ version = 1
    /\ pool = "orient"
    /\ active = {}
    /\ caches = GlobalCaches
    /\ clients = [c \in Clients |-> IdleHandler]
    /\ served = <<>>
    /\ writes = 0
    /\ sel = <<>>
    /\ bucket = {}
    /\ CacheUnused

SpecOrient == InitOrient /\ [][NextOrient]_vars

\* the plane reads that returned
PlaneReads ==
    {k \in 1..Len(reads) : reads[k].out.exc = NoExc}

\* the offset and the step of a plane read along its rows and its columns: a
\* heatmap starts at 0 and reports the steps it took
RowStart(r) == r.out.val.row_offset

ColStart(r) == r.out.val.col_offset

RowStep(r) ==
    IF r.method = "get_matrix" THEN r.args.row_step ELSE r.out.val.downsample_info[1]

ColStep(r) ==
    IF r.method = "get_matrix" THEN r.args.col_step ELSE r.out.val.downsample_info[2]

\* the dataset element that the claim puts at data[i][j], i and j from 0
ElementAsked(r, shape, i, j) ==
    [d \in 1..Len(shape) |->
        IF d - 1 = r.args.display_dims[1] THEN RowStart(r) + i * RowStep(r)
        ELSE IF d - 1 = r.args.display_dims[2] THEN ColStart(r) + j * ColStep(r)
        ELSE EntryOf(r.args.fixed_indices, d - 1).value]

\* C25: for get_matrix and get_heatmap with any pair of distinct display dims
\* (row_dim, col_dim), row_dim > col_dim included, data[i][j] is the dataset
\* element whose row_dim index is row_offset + i * row_step, whose col_dim
\* index is col_offset + j * col_step and whose other axes are at their fixed
\* indices, and the shape reported is [out_rows, out_cols] in that
\* orientation: data has out_rows rows of out_cols elements.
C25_RowsAlongRowDim ==
    \A k \in PlaneReads :
        LET r == reads[k]
            data == ArrayOf(r.out.val.data, fileShape)
        IN  /\ \A i \in 1..Len(data) :
                   /\ Len(data[i]) = r.out.val.shape[2]
                   /\ \A j \in 1..Len(data[i]) :
                          data[i][j] = ElementAsked(r, fileShape, i - 1, j - 1)
            /\ IF data = <<>>
               THEN r.out.val.shape[1] = 0 \/ r.out.val.shape[2] = 0
               ELSE Len(data) = r.out.val.shape[1]

\* get_matrix with the display dims (2, 0) of the 3-D dataset and the rows
\* from 1 on: the one row returned holds the elements (0, 1, 1) and (1, 1, 1),
\* which are at 1 on axis 2, the row dim, and at 0 and 1 on axis 0
C25_Witness ==
    \E k \in PlaneReads :
        /\ reads[k].method = "get_matrix"
        /\ reads[k].args.display_dims = <<2, 0>>
        /\ reads[k].out.val.data.transposed
        /\ reads[k].out.val.shape = <<1, 2>>
        /\ ArrayOf(reads[k].out.val.data, fileShape) = << << <<0, 1, 1>>, <<1, 1, 1>> >> >>

(***************************************************************************)
(* _compute_safe_heatmap_size and the element limit of a heatmap, applied  *)
(* to the rows and columns of a plane and a size requested.                *)
(***************************************************************************)
\* the rows and the columns of the plane: none, one, around the square root
\* of the cap, a factor of the cap, and large
PlaneSizes == {0, 1, 500, 707, 708, 1000, 5000, 1000000}

\* the sizes requested: none, the least, around the square root of the cap,
\* and around MAX_HEATMAP_SIZE, which get_data does not let through above it
SizesRequested == {-1, 0, 1, 2, 512, 707, 708, 1000, 1023, 1024, 1025, 5000}

\* the size is not computed yet
NoSize == [effective_max_size |-> 0, element_count |-> 0, err |-> "", iterations |-> 0]

\* get_data, heatmap: the effective size, the element count and the verdict
\* of _enforce_element_limits; iterations is history: the runs of the while
\* loop
HeatmapSize ==
    /\ Len(reads) = 1
    /\ ~reads[1].done
    /\ LET rows == reads[1].args.rows
           cols == reads[1].args.cols
           requested == reads[1].args.requested
           effective == ComputeSafeHeatmapSize(rows, cols, requested)
           element_count == Min(rows, effective) * Min(cols, effective)
       IN  reads' = <<[reads[1] EXCEPT
                          !.done = TRUE,
                          !.out = [effective_max_size |-> effective,
                                   element_count |-> element_count,
                                   err |-> EnforceElementLimits(element_count),
                                   iterations |->
                                       SafeSizeIterations(rows, cols,
                                           Min(MAX_JSON_ELEMENTS, MAX_ELEMENTS),
                                           1, requested)]]>>
    /\ UNCHANGED <<cacheVars, lock, pc, frame, routeVars, globals, built, handed>>

NextSafe == HeatmapSize

InitSafe ==
    /\ cacheName = "data"
    /\ cache = NewCache(DefaultTTLOf(cacheName), 1)
    /\ now = 0
    /\ ticks = 0
    /\ last = NoOp
    /\ recency = <<>>
    /\ setOrder = <<>>
    /\ deadline = [k \in Keys |-> <<>>]
    /\ lock = None
    /\ pc = [t \in Threads |-> "idle"]
    /\ frame = [t \in Threads |-> IdleFrame]
    /\ globals = [minio |-> None, reader |-> None]
    /\ built = [minio |-> 0, reader |-> 0]
    /\ handed = <<>>
    /\ \E rows \in PlaneSizes, cols \in PlaneSizes, requested \in SizesRequested :
           reads = <<[method |-> "_compute_safe_heatmap_size",
                      args |-> [rows |-> rows, cols |-> cols, requested |-> requested],
                      done |-> FALSE, out |-> NoSize]>>
    /\ RoutesIdle

SpecSafe == InitSafe /\ [][NextSafe]_vars

\* min(rows, size) * min(cols, size) of the plane of a call
ProjectedCells(r, size) == Min(r.args.rows, size) * Min(r.args.cols, size)

\* the cap of the heatmap size
SafeCap == Min(MAX_JSON_ELEMENTS, MAX_ELEMENTS)

\* C26: _compute_safe_heatmap_size(rows, cols, requested) terminates and, for
\* requested >= 1, returns the largest size s in 1..requested with
\* min(rows, s) * min(cols, s) <= min(MAX_JSON_ELEMENTS, MAX_ELEMENTS), which
\* is requested when that fits; rows = cols = 5000 and requested = 1024 give
\* 707; a heatmap with 1 <= max_size <= MAX_HEATMAP_SIZE is never rejected by
\* the element limit.  The while loop runs at most once per halving of
\* 1..requested.
C26_LargestSafeSize ==
    \A k \in 1..Len(reads) :
        LET r == reads[k]
            s == r.out.effective_max_size
        IN  (r.done /\ r.args.requested >= 1) =>
                /\ s \in 1..r.args.requested
                /\ ProjectedCells(r, s) <= SafeCap
                /\ \A larger \in (s + 1)..r.args.requested :
                       ProjectedCells(r, larger) > SafeCap
                /\ ProjectedCells(r, r.args.requested) <= SafeCap
                       => s = r.args.requested
                /\ (r.args.rows = 5000 /\ r.args.cols = 5000
                        /\ r.args.requested = 1024) => s = 707
                /\ r.args.requested <= MAX_HEATMAP_SIZE => r.out.err = ""
                /\ \E n \in 0..13 : /\ 2 ^ n > r.args.requested
                                    /\ r.out.iterations <= n

\* the size 1024 asked of a plane of 5000 x 5000 comes down to 707, found by
\* the search, and the 707 x 707 elements pass the element limit
C26_Witness ==
    /\ Len(reads) = 1
    /\ reads[1].done
    /\ reads[1].args = [rows |-> 5000, cols |-> 5000, requested |-> 1024]
    /\ reads[1].out.effective_max_size = 707
    /\ reads[1].out.element_count = 499849
    /\ reads[1].out.iterations > 0
    /\ reads[1].out.err = ""

(***************************************************************************)
(* The dataset info across /data requests, checked under SpecInfo: two     *)
(* clients send a /data request each, at the same time or one after the    *)
(* other, and time passes up to and past the TTL of the dataset cache.     *)
(* The object stays as it is.                                              *)
(***************************************************************************)
\* the seconds by which time.time() advances at once: to the expiry time of
\* an entry of the dataset cache, and past it
InfoTickSizes == {DATASET_TTL, DATASET_TTL + 1}

TickInfo ==
    \E d \in InfoTickSizes :
        /\ ticks < MaxTicks
        /\ ticks' = ticks + 1
        /\ now' = now + d
        /\ UNCHANGED <<cache, cacheName, last, recency, setOrder, deadline>>
        /\ UNCHANGED <<threadVars, routeVars>>

NextInfo ==
    \/ TickInfo
    \/ \E c \in Clients :
        \/ Issue(c)
        \/ Begin(c)
        \/ Info(c)
        \/ InfoSet(c)
        \/ Read(c)
        \/ Store(c)

InitInfo ==
    /\ readerKind \in ReaderKinds
    /\ fileShape = PlainShape
    /\ version = 1
    /\ pool = "info"
    /\ active = Clients
    /\ caches = GlobalCaches
    /\ clients = [c \in Clients |-> IdleHandler]
    /\ served = <<>>
    /\ writes = 0
    /\ sel = <<>>
    /\ bucket = {}
    /\ CacheUnused

SpecInfo == InitInfo /\ [][NextInfo]_vars

\* the calls of reader.get_dataset_info that an exchange made
InfoCalls(e) == SelectSeq(e.calls, LAMBDA call : call.method = "get_dataset_info")

\* the pairs of /data exchanges for the same object key, cache version tag
\* and internal path, the later one sent after the earlier one was answered
\* and answered no later than the dataset TTL after the earlier one began
SameDatasetPairs ==
    {p \in (1..Len(served)) \X (1..Len(served)) :
        /\ p[1] < p[2]
        /\ served[p[1]].req.endpoint = "data"
        /\ served[p[2]].req.endpoint = "data"
        /\ served[p[1]].req.key = served[p[2]].req.key
        /\ served[p[1]].cache_version = served[p[2]].cache_version
        /\ served[p[1]].path = served[p[2]].path
        /\ served[p[2]].began >= p[1]
        /\ served[p[2]].answered <= served[p[1]].looked + DATASET_TTL}

\* a request served from the data cache calls no get_dataset_info
HitsCallNoInfo ==
    \A i \in 1..Len(served) :
        (served[i].resp.status = 200 /\ served[i].resp.body.cached = TRUE)
            => InfoCalls(served[i]) = <<>>

\* C27: within the dataset TTL and absent eviction, sequential /data requests
\* for the same object key, cache version tag and internal path call
\* reader.get_dataset_info at most once in total, whatever their modes and
\* selections, and a request served from the data cache never calls it.
C27_InfoReadOnce ==
    /\ \A p \in SameDatasetPairs :
           Len(InfoCalls(served[p[1]])) + Len(InfoCalls(served[p[2]])) <= 1
    /\ HitsCallNoInfo

\* C27, amended: such requests call reader.get_dataset_info at most once each,
\* and not at all once a request of the sequence has its dataset info: a call
\* that raises stores nothing and the next request calls again.  A request
\* served from the data cache never calls it.
C27_InfoReadOnceReturned ==
    /\ \A p \in SameDatasetPairs :
           /\ Len(InfoCalls(served[p[1]])) <= 1
           /\ Len(InfoCalls(served[p[2]])) <= 1
           /\ served[p[1]].informed => InfoCalls(served[p[2]]) = <<>>
           /\ ~served[p[1]].informed =>
                  Len(InfoCalls(served[p[2]])) = Len(InfoCalls(served[p[1]]))
    /\ HitsCallNoInfo

\* a matrix and then a line of the same dataset, the line sent after the
\* matrix was answered and the dataset TTL later: the first called
\* get_dataset_info, the second missed the data cache and did not call it
C27_Witness ==
    \E p \in SameDatasetPairs :
        /\ served[p[1]].req.args.mode # served[p[2]].req.args.mode
        /\ Len(InfoCalls(served[p[1]])) = 1
        /\ served[p[1]].informed
        /\ served[p[2]].missed
        /\ served[p[2]].informed
        /\ InfoCalls(served[p[2]]) = <<>>
        /\ served[p[2]].resp.status = 200
        /\ served[p[2]].looked = served[p[1]].answered + DATASET_TTL

(***************************************************************************)
(* The etag in the cache keys of /children and /meta, checked under        *)
(* SpecTree: two clients send a /children or /meta request each, at the    *)
(* same time or one after the other, while the object is uploaded again    *)
(* and time passes.                                                        *)
(***************************************************************************)
NextTree ==
    \/ TickRoutes
    \/ Upload
    \/ \E c \in Clients :
        \/ Issue(c)
        \/ Begin(c)
        \/ Read(c)
        \/ Store(c)

InitTree ==
    /\ readerKind = "HDF5Reader"
    /\ fileShape = PlainShape
    /\ version = 1
    /\ pool = "tree"
    /\ active = Clients
    /\ caches = GlobalCaches
    /\ clients = [c \in Clients |-> IdleHandler]
    /\ served = <<>>
    /\ writes = 0
    /\ sel = <<>>
    /\ bucket = {}
    /\ CacheUnused

SpecTree == InitTree /\ [][NextTree]_vars

\* the /children and /meta exchanges whose HEAD returned an etag
TreeExchanges ==
    {i \in 1..Len(served) :
        /\ served[i].req.endpoint \in {"children", "meta"}
        /\ Len(served[i].heads) = 1
        /\ HeadETag(served[i]).exc = NoExc}

\* the /children and /meta exchanges served from the cache
TreeHits == {i \in TreeExchanges : served[i].resp.status = 200 /\ ~served[i].missed}

\* the children or the metadata of a 200 body
TreeData(e) ==
    IF e.req.endpoint = "children" THEN e.resp.body.children ELSE e.resp.body.metadata

\* the exchanges that stored the payload that exchange j was served
WritersOf(j) ==
    {w \in 1..(j - 1) :
        /\ w \in TreeExchanges
        /\ served[w].wrote > 0
        /\ served[w].cache_key = served[j].cache_key
        /\ served[w].payload = TreeData(served[j])}

\* C28: once a HEAD for an object has returned a new etag, no later /children
\* or /meta request for the object is served a payload cached under an
\* earlier etag, whatever TTL the old entries have left: the HEAD of a
\* request sent after an exchange was answered returns an etag no earlier
\* than that exchange's, and a payload served from the cache was stored under
\* the etag that the HEAD of the request served returned.
C28_NoPayloadOfEarlierETag ==
    /\ \A i \in TreeExchanges, j \in TreeExchanges :
           (i < j /\ served[j].began >= i /\ served[i].req.key = served[j].req.key)
               => served[j].heads[1] >= served[i].heads[1]
    /\ \A j \in TreeHits :
           /\ WritersOf(j) # {}
           /\ \A w \in WritersOf(j) :
                  HeadETag(served[w]).val = HeadETag(served[j]).val

\* a payload is stored under the etag of the first version, the object is
\* uploaded again, and the same request, looking the cache up in the same
\* second, misses the cache and reads the new version
C28_Witness ==
    \E w \in TreeExchanges, j \in TreeExchanges :
        /\ w < j
        /\ served[w].req = served[j].req
        /\ served[w].wrote > 0
        /\ served[w].heads[1] = 1
        /\ served[j].heads[1] = 2
        /\ served[j].looked = served[w].answered
        /\ Has(caches["hdf5"].entries, served[w].cache_key)
        /\ served[j].missed
        /\ served[j].resp.status = 200
        /\ served[j].calls[1].version = 2

(***************************************************************************)
(* The cache keys of the hdf5 endpoints as texts, checked under SpecKey:   *)
(* make_cache_key and _serialize_request_args applied to two requests.  A  *)
(* query is the sequence of the <<name, value>> pairs of the query string. *)
(***************************************************************************)
RECURSIVE JoinText(_, _)
\* sep.join(parts)
JoinText(parts, sep) ==
    IF parts = <<>> THEN ""
    ELSE IF Len(parts) = 1 THEN parts[1]
    ELSE parts[1] \o sep \o JoinText(Tail(parts), sep)

\* make_cache_key: ':'.join(str(p) for p in parts)
JoinKey(parts) == JoinText(parts, ":")

\* the names and the values of the queries, in the order of sorted()
TextOrder ==
    <<"/", "/d", "0,1", "b:c", "c", "display_dims", "etag", "line", "matrix",
      "mode", "none", "path">>

\* the places of sequence seq that hold a pair of the name
PlacesOf(query, name) == {i \in 1..Len(query) : query[i][1] = name}

\* request.args.get(name): the first value of the name, or None
ArgOf(query, name) ==
    IF PlacesOf(query, name) = {} THEN None
    ELSE query[CHOOSE i \in PlacesOf(query, name) :
                   \A j \in PlacesOf(query, name) : i <= j][2]

\* the number of pairs name=value of a query
CountOf(query, name, value) ==
    Cardinality({i \in PlacesOf(query, name) : query[i][2] = value})

RECURSIVE Repeat(_, _)
Repeat(x, n) == IF n = 0 THEN <<>> ELSE <<x>> \o Repeat(x, n - 1)

\* every pair of a name and a value, the names in order and the values of a
\* name in order
PairOrder ==
    [i \in 1..(Len(TextOrder) * Len(TextOrder)) |->
        <<TextOrder[((i - 1) \div Len(TextOrder)) + 1],
          TextOrder[((i - 1) % Len(TextOrder)) + 1]>>]

RECURSIVE PartsOf(_, _)
\* the parts name=value of the pairs, one for each time the query holds the
\* pair
PartsOf(query, pairs) ==
    IF pairs = <<>> THEN <<>>
    ELSE Repeat(pairs[1][1] \o "=" \o pairs[1][2],
                CountOf(query, pairs[1][1], pairs[1][2]))
         \o PartsOf(query, Tail(pairs))

\* the parts of _serialize_request_args: sorted(request.args.keys()) without
\* the names excluded, sorted(getlist(name))
SortedParts(query, excluded) ==
    PartsOf(query, SelectSeq(PairOrder, LAMBDA pair :
                                 /\ pair[1] \notin excluded
                                 /\ CountOf(query, pair[1], pair[2]) > 0))

\* _serialize_request_args on the text of the query: the names sorted, the
\* values of a name sorted, name=value joined by '&'
SerializeQuery(query, excluded) == JoinText(SortedParts(query, excluded), "&")

\* the etag that the HEAD of an object returns
ObjectETag(key) == IF key = "a" THEN "v1" ELSE "v2"

\* str(param or '').strip() or 'none' of get_preview
ParamKey(param) == IF Falsy(param) THEN "none" ELSE param

\* the cache key that the handler of a request builds
CacheKeyText(req) ==
    CASE req.endpoint = "data" ->
             JoinKey(<<"data", req.key,
                       ResolveCacheVersionTag(ArgOf(req.query, "etag")),
                       SerializeQuery(req.query, {"etag"})>>)
      [] req.endpoint = "preview" ->
             JoinKey(<<"preview", req.key,
                       ResolveCacheVersionTag(ArgOf(req.query, "etag")),
                       ArgOf(req.query, "path"),
                       ParamKey(ArgOf(req.query, "display_dims")),
                       ParamKey(ArgOf(req.query, "fixed_indices")),
                       "default", "auto", "full", "stats">>)
      [] OTHER ->
             JoinKey(<<req.endpoint, req.key, ObjectETag(req.key),
                       IF req.endpoint = "children" /\ ArgOf(req.query, "path") = None
                       THEN "/" ELSE ArgOf(req.query, "path")>>)

\* the object keys of the requests
ObjectKeys == {"a", "a:b"}

\* the queries of the requests: a path, with a mode under /data, with or
\* without an etag, and display_dims under /preview
TextQueries(endpoint) ==
    LET etags == {<<>>, << <<"etag", "c">> >>, << <<"etag", "b:c">> >>}
    IN  CASE endpoint = "data" ->
                 {<< <<"path", "/d">>, <<"mode", mode>> >> \o etag :
                     mode \in {"line", "matrix"}, etag \in etags}
                 \cup {<< <<"mode", "line">>, <<"path", "/d">> >>,
                       << <<"mode", "matrix">>, <<"mode", "line">>, <<"path", "/d">> >>}
          [] endpoint = "preview" ->
                 {<< <<"path", "/d">> >> \o dims \o etag :
                     dims \in {<<>>, << <<"display_dims", "0,1">> >>,
                               << <<"display_dims", "none">> >>},
                     etag \in {<<>>, << <<"etag", "c">> >>}}
          [] endpoint = "children" ->
                 {<<>>, << <<"path", "/">> >>, << <<"path", "/d">> >>}
          [] OTHER -> {<< <<"path", "/">> >>, << <<"path", "/d">> >>}

TextRequests ==
    UNION {{[endpoint |-> endpoint, key |-> key, query |-> query] :
                key \in ObjectKeys, query \in TextQueries(endpoint)} :
           endpoint \in {"children", "meta", "preview", "data"}}

\* the handlers of two requests build their cache keys
BuildKeys ==
    /\ Len(reads) = 1
    /\ ~reads[1].done
    /\ reads' = <<[reads[1] EXCEPT
                      !.done = TRUE,
                      !.out = <<CacheKeyText(reads[1].args[1]),
                                CacheKeyText(reads[1].args[2])>>]>>
    /\ UNCHANGED <<cacheVars, lock, pc, frame, routeVars, globals, built, handed>>

NextKey == BuildKeys

InitKey ==
    /\ cacheName = "data"
    /\ cache = NewCache(DefaultTTLOf(cacheName), 1)
    /\ now = 0
    /\ ticks = 0
    /\ last = NoOp
    /\ recency = <<>>
    /\ setOrder = <<>>
    /\ deadline = [k \in Keys |-> <<>>]
    /\ lock = None
    /\ pc = [t \in Threads |-> "idle"]
    /\ frame = [t \in Threads |-> IdleFrame]
    /\ globals = [minio |-> None, reader |-> None]
    /\ built = [minio |-> 0, reader |-> 0]
    /\ handed = <<>>
    /\ \E first \in TextRequests, second \in TextRequests :
           reads = <<[method |-> "make_cache_key", args |-> <<first, second>>,
                      done |-> FALSE, out |-> <<"", "">>]>>
    /\ RoutesIdle

SpecKey == InitKey /\ [][NextKey]_vars

\* what a request identifies: the endpoint, the object, the cache version
\* tag, the internal path and the selection parameters, whatever the order
\* of the query
Identified(req) ==
    CASE req.endpoint = "data" ->
             [endpoint |-> "data", key |-> req.key,
              version |-> ResolveCacheVersionTag(ArgOf(req.query, "etag")),
              path |-> ArgOf(req.query, "path"),
              params |-> [name \in {"mode", "path"}, value \in {"/d", "line", "matrix"}
                              |-> CountOf(req.query, name, value)]]
      [] req.endpoint = "preview" ->
             [endpoint |-> "preview", key |-> req.key,
              version |-> ResolveCacheVersionTag(ArgOf(req.query, "etag")),
              path |-> ArgOf(req.query, "path"),
              params |-> <<ArgOf(req.query, "display_dims")>>]
      [] OTHER ->
             [endpoint |-> req.endpoint, key |-> req.key,
              version |-> ObjectETag(req.key),
              path |-> IF req.endpoint = "children" /\ ArgOf(req.query, "path") = None
                       THEN "/" ELSE ArgOf(req.query, "path"),
              params |-> <<>>]

\* C29: the cache keys of the hdf5 endpoints are injective on what they
\* identify: two requests that differ in the object key, the cache version
\* tag, the internal path or a selection parameter, and not merely in the
\* order of the query parameters, never get the same cache key.
C29_KeysInjective ==
    \A k \in 1..Len(reads) :
        (reads[k].done /\ Identified(reads[k].args[1]) # Identified(reads[k].args[2]))
            => reads[k].out[1] # reads[k].out[2]

(***************************************************************************)
(* The response caches and the error responses of /preview and /data,      *)
(* checked under SpecError: two clients send a request each, at the same   *)
(* time or one after the other, time passes and the object is removed      *)
(* from the bucket.                                                        *)
(***************************************************************************)
\* the object is removed from the bucket
Remove ==
    /\ version > 0
    /\ version' = 0
    /\ UNCHANGED <<readerKind, fileShape, pool, active, caches, clients, served,
                   writes, sel, bucket>>
    /\ UNCHANGED <<cacheVars, threadVars>>

NextError ==
    \/ TickRoutes
    \/ Remove
    \/ \E c \in Clients :
        \/ Issue(c)
        \/ Begin(c)
        \/ Info(c)
        \/ InfoSet(c)
        \/ Read(c)
        \/ Store(c)

InitError ==
    /\ readerKind \in ReaderKinds
    /\ fileShape = PlainShape
    /\ version = 1
    /\ pool = "error"
    /\ active = Clients
    /\ caches = GlobalCaches
    /\ clients = [c \in Clients |-> IdleHandler]
    /\ served = <<>>
    /\ writes = 0
    /\ sel = <<>>
    /\ bucket = {}
    /\ CacheUnused

SpecError == InitError /\ [][NextError]_vars

\* the entries of a cache that have not expired at time t, in their order
Live(c, t) == SelectSeq(c.entries, LAMBDA entry : ~Expired(entry, t))

\* the /preview and /data exchanges answered with an error
ErrorExchanges ==
    {i \in 1..Len(served) :
        /\ served[i].req.endpoint \in {"data", "preview"}
        /\ served[i].resp.status >= 400}

\* an exchange that ended in an error did not call cache.set on its cache
ErrorsWroteNothing == \A i \in ErrorExchanges : served[i].wrote = 0

\* the same request sent after an error response is not served from the
\* cache: it misses the cache, or is refused before the cache is looked up
ErrorsNotServedLater ==
    \A i \in ErrorExchanges, j \in 1..Len(served) :
        (i < j /\ served[j].req = served[i].req /\ served[j].began >= i)
            => \/ served[j].missed
               \/ served[j].resp.status >= 400 /\ served[j].cache_key = <<>>

\* client c takes a step of a /preview or /data handler
Handling(c) ==
    /\ clients[c].pc \in {"begin", "info", "infoset", "read", "store"}
    /\ clients[c].req.endpoint \in {"data", "preview"}
    /\ clients'[c] # clients[c]

\* the step answers the request of client c with the status
AnswersWith(c, statuses) ==
    /\ Len(served') = Len(served) + 1
    /\ served'[Len(served')].client = c
    /\ served'[Len(served')].resp.status \in statuses

\* a step of a handler other than the cache.set of its last step and the
\* cache hit leaves the unexpired entries of its response cache as they are
ErrorKeepsCache(c) ==
    (Handling(c) /\ clients[c].pc # "store" /\ ~AnswersWith(c, {200}))
        => LET name == CacheOf(clients[c].req.endpoint)
           IN  Live(caches'[name], now) = Live(caches[name], now)

\* a cache hit leaves every entry stored with its value and its expiry time;
\* the payload stored by /data says cached=false and the response cached=true
HitKeepsValue(c) ==
    (Handling(c) /\ clients[c].pc = "begin" /\ AnswersWith(c, {200}))
        => LET name == CacheOf(clients[c].req.endpoint)
               e == served'[Len(served')]
               Stored(cs) == {cs[name].entries[k] : k \in 1..Len(cs[name].entries)}
           IN  /\ Has(caches[name].entries, e.cache_key)
               /\ Stored(caches') = Stored(caches)
               /\ e.resp.body.cached = TRUE
               /\ e.req.endpoint = "data" =>
                      EntryOf(caches'[name].entries, e.cache_key).value.cached = FALSE

====
